---------------------------- MODULE Spec2Model ----------------------------
(***************************************************************************)
(* Template expression and resolution engine of smeta_pro:                 *)
(*   - the arithmetic evaluator of dialogs.py (_safe_eval_expr and the     *)
(*     "=" calculator input that uses it),                                 *)
(*   - the name extraction of template_management.py,                      *)
(*   - TemplateManagementWindow.load_to_boq: amount passes, fallback for   *)
(*     unresolved items, price pass, materialization into the estimate.    *)
(*                                                                         *)
(* Numbers are exact rationals <<n, d>> (d > 0, lowest terms); the float   *)
(* rounding of IEEE-754 is not modelled.  Expression texts are sequences   *)
(* of Python tokens; ast.parse is the operator ast_parse below.            *)
(***************************************************************************)
EXTENDS Integers, Sequences, FiniteSets, TLC

(***************************************************************************)
(* Bounds of the model.                                                    *)
(***************************************************************************)
MaxItems == 2

MaxTokens == 3

(***************************************************************************)
(* Rational arithmetic.                                                    *)
(***************************************************************************)
Abs(n) == IF n < 0 THEN -n ELSE n

RECURSIVE Gcd(_, _)
Gcd(a, b) == IF b = 0 THEN a ELSE Gcd(b, a % b)

Rat(n, d) ==
    LET s == IF d < 0 THEN -1 ELSE 1
        g == Gcd(Abs(n), Abs(d))
    IN  <<(s * n) \div g, (s * d) \div g>>

Int2Rat(n) == <<n, 1>>

RAdd(a, b) == Rat(a[1] * b[2] + b[1] * a[2], a[2] * b[2])

RSub(a, b) == Rat(a[1] * b[2] - b[1] * a[2], a[2] * b[2])

RMul(a, b) == Rat(a[1] * b[1], a[2] * b[2])

RDiv(a, b) == Rat(a[1] * b[2], a[2] * b[1])

RLess(a, b) == a[1] * b[2] < b[1] * a[2]

RFloor(a) == a[1] \div a[2]

RCeil(a) == -((-a[1]) \div a[2])

RMax(a, b) == IF RLess(a, b) THEN b ELSE a

\* Python's a % b on numbers: a - floor(a / b) * b (the sign of b).
RMod(a, b) == RSub(a, RMul(Int2Rat(RFloor(RDiv(a, b))), b))

RECURSIVE RPowNat(_, _)
RPowNat(a, k) == IF k = 0 THEN <<1, 1>> ELSE RMul(a, RPowNat(a, k - 1))

\* a ** b for an integer exponent b (the only exponents the bounded
\* expressions produce); a negative exponent is the reciprocal.
RPow(a, b) ==
    CASE b[2] = 1 /\ b[1] >= 0 -> RPowNat(a, b[1])
      [] b[2] = 1 /\ b[1] < 0  -> RPowNat(RDiv(<<1, 1>>, a), -b[1])

(***************************************************************************)
(* Tokens of an expression text.                                           *)
(***************************************************************************)
IntTokens == {"0", "1", "2", "3", "5", "10"}

FloatTokens == {"2.3", "0.5"}

NumTokens == IntTokens \cup FloatTokens

NameTokens == {"string", "String", "x", "y", "m", "a", "b", "w", "z",
               "ceil", "f", "__import__"}

StrTokens == {"'a'", "'os'"}

BoolTokens == {"True"}

NumVal(tok) ==
    CASE tok = "0"   -> <<0, 1>>
      [] tok = "1"   -> <<1, 1>>
      [] tok = "2"   -> <<2, 1>>
      [] tok = "3"   -> <<3, 1>>
      [] tok = "5"   -> <<5, 1>>
      [] tok = "10"  -> <<10, 1>>
      [] tok = "2.3" -> <<23, 10>>
      [] tok = "0.5" -> <<1, 2>>

\* The value of the digits of an integer token read after a decimal point.
FracVal(tok) ==
    CASE tok = "0"   -> <<0, 1>>
      [] tok = "1"   -> <<1, 10>>
      [] tok = "2"   -> <<1, 5>>
      [] tok = "3"   -> <<3, 10>>
      [] tok = "5"   -> <<1, 2>>
      [] tok = "10"  -> <<1, 10>>

(***************************************************************************)
(* Python's ast nodes.                                                     *)
(***************************************************************************)
Constant(kind, value) == [type |-> "Constant", kind |-> kind, value |-> value]

Name(id) == [type |-> "Name", id |-> id]

BinOp(left, op, right) ==
    [type |-> "BinOp", left |-> left, op |-> op, right |-> right]

UnaryOp(op, operand) == [type |-> "UnaryOp", op |-> op, operand |-> operand]

Call(func, args) == [type |-> "Call", func |-> func, args |-> args]

Attribute(value, attr) == [type |-> "Attribute", value |-> value, attr |-> attr]

Subscript(value, slice) == [type |-> "Subscript", value |-> value, slice |-> slice]

Tuple(elts) == [type |-> "Tuple", elts |-> elts]

List(elts) == [type |-> "List", elts |-> elts]

Starred(value) == [type |-> "Starred", value |-> value]

Expression(body) == [type |-> "Expression", body |-> body]

OpNode(op) == [type |-> op]

BinOpOf(tok) ==
    CASE tok = "+"  -> "Add"
      [] tok = "-"  -> "Sub"
      [] tok = "*"  -> "Mult"
      [] tok = "/"  -> "Div"
      [] tok = "%"  -> "Mod"
      [] tok = "**" -> "Pow"
      [] tok = "//" -> "FloorDiv"

UnaryOpOf(tok) == IF tok = "+" THEN "UAdd" ELSE "USub"

(***************************************************************************)
(* ast.parse(expr, mode="eval") on a token sequence: Python's expression   *)
(* grammar for the tokens above (tuples, calls, attributes, subscripts,    *)
(* unary and binary arithmetic, ** right-associative and binding tighter   *)
(* than a unary operator on its left).  A parse result is                  *)
(* [ok, node, pos]; pos is the position after the parsed part.             *)
(***************************************************************************)
NoNode == [type |-> "None"]

Fail == [ok |-> FALSE, node |-> NoNode, pos |-> 0]

Ok(node, pos) == [ok |-> TRUE, node |-> node, pos |-> pos]

Tok(ts, p) == IF p <= Len(ts) THEN ts[p] ELSE "<end>"

RECURSIVE SkipStrings(_, _)
\* Adjacent string literals are one constant.
SkipStrings(ts, p) == IF Tok(ts, p) \in StrTokens THEN SkipStrings(ts, p + 1) ELSE p

\* A list that stands for one expression: a single element without a
\* trailing comma is that element, anything else a Tuple.
AsExpr(l) ==
    IF Len(l.elts) = 1 /\ ~l.trailing THEN l.elts[1] ELSE Tuple(l.elts)

\* The rules of the grammar are the cases of one recursive operator,
\* Parse(rule, ts, a); the operators below name the rules.
RECURSIVE Parse(_, _, _)

\* elt ("," elt)* [","] up to the closing token, where an element is an
\* expression or, when star is set (list displays and call arguments), a
\* starred expression.  elts are the elements parsed so far; trailing says
\* whether the list ended in a comma (or is empty).
ParseList(ts, p, elts, close, star) ==
    Parse("list", ts, [pos |-> p, elts |-> elts, close |-> close, star |-> star])

ParseAtom(ts, p) == Parse("atom", ts, [pos |-> p])

\* Calls, subscripts and attributes after the primary r.
ParseTrailers(ts, r) == Parse("trailers", ts, r)

ParsePower(ts, p) == Parse("power", ts, [pos |-> p])

ParseFactor(ts, p) == Parse("factor", ts, [pos |-> p])

\* The operators * / % // after the left operand l.
ParseTermRest(ts, l) == Parse("term_rest", ts, l)

ParseTerm(ts, p) == Parse("term", ts, [pos |-> p])

\* The operators + - after the left operand l.
ParseArithRest(ts, l) == Parse("arith_rest", ts, l)

ParseArith(ts, p) == Parse("arith", ts, [pos |-> p])

Parse(rule, ts, a) ==
    CASE rule = "list" ->
            IF Tok(ts, a.pos) = a.close
            THEN Ok([elts |-> a.elts, trailing |-> TRUE], a.pos)
            ELSE LET starred == a.star /\ Tok(ts, a.pos) = "*"
                     e == ParseArith(ts, IF starred THEN a.pos + 1 ELSE a.pos)
                     r == IF e.ok /\ starred THEN Ok(Starred(e.node), e.pos) ELSE e
                 IN  IF ~r.ok THEN Fail
                     ELSE IF Tok(ts, r.pos) = ","
                     THEN ParseList(ts, r.pos + 1, Append(a.elts, r.node), a.close, a.star)
                     ELSE IF Tok(ts, r.pos) = a.close
                     THEN Ok([elts |-> Append(a.elts, r.node), trailing |-> FALSE], r.pos)
                     ELSE Fail
      [] rule = "atom" ->
            LET p == a.pos
                t == Tok(ts, p)
            IN  CASE t \in NumTokens  -> Ok(Constant("num", NumVal(t)), p + 1)
                  [] t \in StrTokens  -> Ok(Constant("str", <<0, 1>>), SkipStrings(ts, p + 1))
                  [] t \in BoolTokens -> Ok(Constant("bool", <<1, 1>>), p + 1)
                  [] t \in NameTokens -> Ok(Name(t), p + 1)
                  [] t = "(" ->
                        LET r == ParseList(ts, p + 1, <<>>, ")", FALSE)
                        IN  IF r.ok THEN Ok(AsExpr(r.node), r.pos + 1) ELSE Fail
                  [] t = "[" ->
                        LET r == ParseList(ts, p + 1, <<>>, "]", TRUE)
                        IN  IF r.ok THEN Ok(List(r.node.elts), r.pos + 1) ELSE Fail
                  [] OTHER -> Fail
      [] rule = "trailers" ->
            LET t == Tok(ts, a.pos)
            IN  CASE t = "(" ->
                        LET l == ParseList(ts, a.pos + 1, <<>>, ")", TRUE)
                        IN  IF l.ok
                            THEN ParseTrailers(ts, Ok(Call(a.node, l.node.elts), l.pos + 1))
                            ELSE Fail
                  [] t = "[" ->
                        LET l == ParseList(ts, a.pos + 1, <<>>, "]", FALSE)
                        IN  IF l.ok /\ Len(l.node.elts) > 0
                            THEN ParseTrailers(ts,
                                    Ok(Subscript(a.node, AsExpr(l.node)), l.pos + 1))
                            ELSE Fail
                  [] t = "." ->
                        IF Tok(ts, a.pos + 1) \in NameTokens
                        THEN ParseTrailers(ts,
                                Ok(Attribute(a.node, Tok(ts, a.pos + 1)), a.pos + 2))
                        ELSE Fail
                  [] OTHER -> a
      [] rule = "power" ->
            LET atom == ParseAtom(ts, a.pos)
                b == IF atom.ok THEN ParseTrailers(ts, atom) ELSE Fail
            IN  IF b.ok /\ Tok(ts, b.pos) = "**"
                THEN LET e == ParseFactor(ts, b.pos + 1)
                     IN  IF e.ok THEN Ok(BinOp(b.node, "Pow", e.node), e.pos) ELSE Fail
                ELSE b
      [] rule = "factor" ->
            IF Tok(ts, a.pos) \in {"+", "-"}
            THEN LET r == ParseFactor(ts, a.pos + 1)
                 IN  IF r.ok
                     THEN Ok(UnaryOp(UnaryOpOf(Tok(ts, a.pos)), r.node), r.pos)
                     ELSE Fail
            ELSE ParsePower(ts, a.pos)
      [] rule = "term_rest" ->
            IF a.ok /\ Tok(ts, a.pos) \in {"*", "/", "%", "//"}
            THEN LET r == ParseFactor(ts, a.pos + 1)
                 IN  IF r.ok
                     THEN ParseTermRest(ts,
                            Ok(BinOp(a.node, BinOpOf(Tok(ts, a.pos)), r.node), r.pos))
                     ELSE Fail
            ELSE a
      [] rule = "term" -> ParseTermRest(ts, ParseFactor(ts, a.pos))
      [] rule = "arith_rest" ->
            IF a.ok /\ Tok(ts, a.pos) \in {"+", "-"}
            THEN LET r == ParseTerm(ts, a.pos + 1)
                 IN  IF r.ok
                     THEN ParseArithRest(ts,
                            Ok(BinOp(a.node, BinOpOf(Tok(ts, a.pos)), r.node), r.pos))
                     ELSE Fail
            ELSE a
      [] rule = "arith" -> ParseArithRest(ts, ParseTerm(ts, a.pos))

\* ast.parse(expr, mode="eval"): the Expression node, or SyntaxError.
ast_parse(ts) ==
    LET Module(r) ==
            IF r.ok /\ Len(r.node.elts) > 0
            THEN [ok |-> TRUE, tree |-> Expression(AsExpr(r.node))]
            ELSE [ok |-> FALSE, tree |-> NoNode]
    IN  Module(ParseList(ts, 1, <<>>, "<end>", FALSE))

(***************************************************************************)
(* Walking a tree.                                                         *)
(***************************************************************************)
Load == OpNode("Load")

\* ast.iter_child_nodes(n): the child nodes in field order.  The operator
\* of a BinOp or UnaryOp and the context of a Name are nodes as well.
Children(n) ==
    CASE n.type = "Expression" -> <<n.body>>
      [] n.type = "BinOp"      -> <<n.left, OpNode(n.op), n.right>>
      [] n.type = "UnaryOp"    -> <<OpNode(n.op), n.operand>>
      [] n.type = "Name"       -> <<Load>>
      [] n.type = "Call"       -> <<n.func>> \o n.args
      [] n.type = "Attribute"  -> <<n.value, Load>>
      [] n.type = "Subscript"  -> <<n.value, n.slice, Load>>
      [] n.type = "Tuple"      -> n.elts \o <<Load>>
      [] n.type = "List"       -> n.elts \o <<Load>>
      [] n.type = "Starred"    -> <<n.value, Load>>
      [] OTHER                 -> <<>>

RECURSIVE NamesIn(_)
RECURSIVE NamesInAll(_, _)
\* {n.id for n in ast.walk(node) if isinstance(n, ast.Name)}
NamesIn(n) ==
    (IF n.type = "Name" THEN {n.id} ELSE {}) \cup NamesInAll(Children(n), 1)

NamesInAll(ns, i) ==
    IF i > Len(ns) THEN {} ELSE NamesIn(ns[i]) \cup NamesInAll(ns, i + 1)

\* template_management._extract_expr_names: no names for an empty text
\* and for a text that does not parse.
_extract_expr_names(expr) ==
    LET Walk(node) == IF ~node.ok THEN {} ELSE NamesIn(node.tree)
    IN  IF expr = <<>> THEN {} ELSE Walk(ast_parse(expr))

(***************************************************************************)
(* Outcomes of an evaluation: a value of some kind, or a raised exception. *)
(***************************************************************************)
Value(kind, val) == [ok |-> TRUE, kind |-> kind, val |-> val, exc |-> ""]

Raise(exc) == [ok |-> FALSE, kind |-> "", val |-> <<0, 1>>, exc |-> exc]

None == Value("None", <<0, 1>>)

Number(val) == Value("num", val)

IsNumber(o) == o.ok /\ o.kind = "num"

IsNumeric(o) == o.ok /\ o.kind \in {"num", "bool"}

\* A Python dict with string keys: a function on the set of its keys.
EmptyEnv == [n \in {} |-> <<0, 1>>]

SetItem(d, k, v) == [n \in DOMAIN d \cup {k} |-> IF n = k THEN v ELSE d[n]]

\* One arithmetic operation on two numbers.
Arith(op, a, b) ==
    CASE op = "Add"  -> Number(RAdd(a, b))
      [] op = "Sub"  -> Number(RSub(a, b))
      [] op = "Mult" -> Number(RMul(a, b))
      [] op = "Div"  -> IF b[1] = 0 THEN Raise("ZeroDivisionError") ELSE Number(RDiv(a, b))
      [] op = "Mod"  -> IF b[1] = 0 THEN Raise("ZeroDivisionError") ELSE Number(RMod(a, b))
      [] op = "FloorDiv" ->
            IF b[1] = 0 THEN Raise("ZeroDivisionError")
            ELSE Number(Int2Rat(RFloor(RDiv(a, b))))
      [] op = "Pow"  ->
            IF a[1] = 0 /\ b[1] < 0 THEN Raise("ZeroDivisionError")
            ELSE Number(RPow(a, b))

RECURSIVE PyEval(_, _)
\* eval(compile(node, "<expr>", "eval"), env) for the nodes that reach it:
\* constants, names and arithmetic.  A name not in env raises NameError;
\* an operand that is not a number, and every other node, ends in an
\* exception or in a value that is not a number (here: TypeError).
PyEval(n, env) ==
    CASE n.type = "Constant" -> Value(n.kind, n.value)
      [] n.type = "Name" ->
            IF n.id \in DOMAIN env THEN Number(env[n.id]) ELSE Raise("NameError")
      [] n.type = "UnaryOp" ->
            LET v == PyEval(n.operand, env)
            IN  IF ~v.ok THEN v
                ELSE IF ~IsNumeric(v) THEN Raise("TypeError")
                ELSE IF n.op = "USub" THEN Number(RSub(<<0, 1>>, v.val))
                ELSE Number(v.val)
      [] n.type = "BinOp" ->
            LET l == PyEval(n.left, env)
                r == IF l.ok THEN PyEval(n.right, env) ELSE l
            IN  IF ~l.ok THEN l
                ELSE IF ~r.ok THEN r
                ELSE IF ~(IsNumeric(l) /\ IsNumeric(r)) THEN Raise("TypeError")
                ELSE Arith(n.op, l.val, r.val)
      [] n.type = "Tuple" -> Value("tuple", <<0, 1>>)
      [] OTHER -> Raise("TypeError")

(***************************************************************************)
(* dialogs._safe_eval_expr                                                 *)
(***************************************************************************)
allowed_nodes == {"Expression", "BinOp", "UnaryOp", "Num", "Constant"}

allowed_ops == {"Add", "Sub", "Mult", "Div", "Mod", "Pow", "UAdd", "USub"}

RECURSIVE _validate(_)
RECURSIVE ValidateAll(_, _)
\* The nested _validate: "ok", or the message of the ValueError it raises.
_validate(n) ==
    IF n.type \notin allowed_nodes THEN "Invalid expression"
    ELSE IF n.type = "BinOp" /\ n.op \notin allowed_ops THEN "Invalid operator"
    ELSE IF n.type = "UnaryOp" /\ n.op \notin allowed_ops THEN "Invalid operator"
    ELSE ValidateAll(Children(n), 1)

ValidateAll(ns, i) ==
    IF i > Len(ns) THEN "ok"
    ELSE LET v == _validate(ns[i])
         IN  IF v # "ok" THEN v ELSE ValidateAll(ns, i + 1)

_safe_eval_expr(expr) ==
    LET Result(value) ==
            IF ~value.ok THEN value
            ELSE IF ~IsNumeric(value) THEN Raise("ValueError")
            ELSE Number(value.val)
        Checked(node) ==
            IF ~node.ok THEN Raise("SyntaxError")
            ELSE IF _validate(node.tree) # "ok" THEN Raise("ValueError")
            ELSE Result(PyEval(node.tree.body, EmptyEnv))
    IN  Checked(ast_parse(expr))

(***************************************************************************)
(* float(text.replace(",", ".")) on a token sequence, the tokens written   *)
(* without spaces: an optional sign and a number, where a comma between    *)
(* (or after, or before) integer digits is the decimal point.              *)
(***************************************************************************)
FloatOfUnsigned(ts) ==
    CASE Len(ts) = 1 /\ ts[1] \in NumTokens -> Number(NumVal(ts[1]))
      [] Len(ts) = 2 /\ ts[1] \in IntTokens /\ ts[2] = "," -> Number(NumVal(ts[1]))
      [] Len(ts) = 2 /\ ts[1] = "," /\ ts[2] \in IntTokens -> Number(FracVal(ts[2]))
      [] Len(ts) = 3 /\ ts[1] \in IntTokens /\ ts[2] = "," /\ ts[3] \in IntTokens ->
            Number(RAdd(NumVal(ts[1]), FracVal(ts[3])))
      [] OTHER -> Raise("ValueError")

FloatOf(ts) ==
    IF ts # <<>> /\ Head(ts) \in {"+", "-"}
    THEN LET v == FloatOfUnsigned(Tail(ts))
         IN  IF v.ok /\ Head(ts) = "-" THEN Number(RSub(<<0, 1>>, v.val)) ELSE v
    ELSE FloatOfUnsigned(ts)

(***************************************************************************)
(* dialogs._apply_calc_to_spinbox: the "=" calculator of a price input.    *)
(* The result is the spinbox value after the call and the exception that   *)
(* left the handler ("" when none did).                                    *)
(***************************************************************************)
SpinMin == <<0, 1>>

SpinMax == <<99999999, 100>>

\* QDoubleSpinBox.setValue with the range 0 .. 999999.99 of the price inputs.
setValue(value) ==
    IF RLess(value, SpinMin) THEN SpinMin
    ELSE IF RLess(SpinMax, value) THEN SpinMax
    ELSE value

Returned(value) == [value |-> value, escaped |-> ""]

Escaped(value, exc) == [value |-> value, escaped |-> exc]

OnlyValueError == {"ValueError"}

\* The exceptions an "except Exception" clause catches: every exception
\* the evaluation raises is an Exception.
ExceptionClasses == {"SyntaxError", "ValueError", "NameError", "TypeError",
                     "ZeroDivisionError"}

_apply_calc_to_spinbox(value_before, text) ==
    LET Try(value) ==
            IF value.ok THEN Returned(setValue(value.val))
            ELSE IF value.exc \in ExceptionClasses THEN Returned(value_before)
            ELSE Escaped(value_before, value.exc)
    IN  IF text = <<>> THEN Returned(value_before)
        ELSE IF Head(text) # "=" THEN Try(FloatOf(text))
        ELSE IF Tail(text) = <<>> THEN Returned(value_before)
        ELSE Try(_safe_eval_expr(Tail(text)))

(***************************************************************************)
(* The evaluator with variables that load_to_boq imports from dialogs      *)
(* (_parse_calc_text); its definition is not part of the sources, so it    *)
(* follows section 4.1 of the specification: evaluate(expr, variables)     *)
(* and its convenience variant parse_calc_text(text, variables).           *)
(***************************************************************************)
GrammarOps == {"Add", "Sub", "Mult", "Div", "Mod", "Pow"}

GrammarUnaryOps == {"UAdd", "USub"}

RECURSIVE InGrammar(_)
\* Numeric literals, names, parentheses, + - * / % ** and unary + -.
InGrammar(n) ==
    CASE n.type = "Expression" -> InGrammar(n.body)
      [] n.type = "BinOp" ->
            n.op \in GrammarOps /\ InGrammar(n.left) /\ InGrammar(n.right)
      [] n.type = "UnaryOp" -> n.op \in GrammarUnaryOps /\ InGrammar(n.operand)
      [] n.type = "Constant" -> n.kind = "num"
      [] n.type = "Name" -> TRUE
      [] OTHER -> FALSE

evaluate(expr, env) ==
    LET Result(value) ==
            CASE value.ok /\ IsNumber(value)         -> value
              [] value.ok /\ ~IsNumber(value)        -> Raise("InvalidResult")
              [] value.exc = "NameError"             -> Raise("UnknownVariable")
              [] value.exc = "ZeroDivisionError"     -> Raise("DivisionByZero")
              [] OTHER                               -> Raise("InvalidResult")
        Checked(node) ==
            IF ~node.ok THEN Raise("InvalidExpression")
            ELSE IF ~InGrammar(node.tree) THEN Raise("InvalidExpression")
            ELSE Result(PyEval(node.tree.body, env))
    IN  Checked(ast_parse(expr))

\* A number on success, None on any failure.  A text with the "=" prefix
\* is a formula; a bare number needs no prefix; any other text is
\* evaluated as a formula as well.
_parse_calc_text(text, env) ==
    LET OrNone(value) == IF value.ok THEN value ELSE None
    IN  IF text = <<>> THEN None
        ELSE IF Head(text) = "=" THEN OrNone(evaluate(Tail(text), env))
        ELSE IF FloatOf(text).ok THEN FloatOf(text)
        ELSE OrNone(evaluate(text, env))

(***************************************************************************)
(* State.                                                                  *)
(*   template_items          TemplateManagementWindow.template_items       *)
(*   boq_window              whether the window has an estimate window     *)
(*                           (self.boq_window is not None)                 *)
(*   load_result             how the last call of load_to_boq left its     *)
(*                           early returns (437-453)                       *)
(*   string_count, boq_items, next_id    the estimate window (SmetaWindow) *)
(*   pc                      where load_to_boq stands                      *)
(*   variables .. skip_remaining_generic   the locals of load_to_boq       *)
(*   warnings                the warning boxes load_to_boq has shown, each *)
(*                           the list of messages it displayed             *)
(*   reported                the count of the final information box        *)
(*                           (-1 while none was shown)                     *)
(*   replace_mode            the local replace_mode of load_to_boq         *)
(*   calls                   the calls load_to_boq has made of             *)
(*                           select_product_for_generic and read_product   *)
(*   store                   the template collection of the database: the  *)
(*                           stored items of each template name            *)
(*   save_result             the message box save_template ended with      *)
(*                           ("none" before a save)                        *)
(*   spinbox, calc_text      a price input with the "=" calculator and the *)
(*                           text typed into it                            *)
(*   last_eval, calc_escaped the outcome of the handler's call of          *)
(*                           _safe_eval_expr and the exception that left   *)
(*                           the handler ("" when none did)                *)
(*   calc_env, last_calc     an environment and the result of              *)
(*                           _parse_calc_text(calc_text, calc_env)         *)
(* Sequences are indexed from 1 where Python counts from 0.                *)
(***************************************************************************)
VARIABLES template_items, boq_window, load_result, string_count, boq_items, next_id, pc,
          variables, resolved, pending, errors, progress,
          idx, items_added, skip_remaining_generic, warnings, reported,
          replace_mode, calls, store, save_result, current_template_id,
          spinbox, calc_text, calc_env, calc_escaped, last_eval, last_calc

estimate_vars == <<boq_items, next_id>>

local_vars == <<variables, resolved, pending, errors, progress,
                idx, items_added, skip_remaining_generic, replace_mode, calls>>

load_vars == <<template_items, boq_window, load_result, string_count, boq_items, next_id, pc,
               variables, resolved, pending, errors, progress,
               idx, items_added, skip_remaining_generic, warnings, reported,
               replace_mode, calls>>

calc_vars == <<spinbox, calc_text, calc_env, calc_escaped, last_eval, last_calc>>

save_vars == <<store, save_result, current_template_id>>

vars == <<load_vars, calc_vars, save_vars>>

(***************************************************************************)
(* The amount passes of load_to_boq (template_management.py 461-502).      *)
(***************************************************************************)
\* str.lower() on the variable names of the model.
Lower(name) ==
    CASE name = "String" -> "string"
      [] name = "X" -> "x"
      [] OTHER -> name

\* item.get('generic_name', item.get('name', ''))
Label(item) == item.generic_name

Err(label, kind, names) == [label |-> label, kind |-> kind, names |-> names]

MinAmount == <<1, 100>>

\* The two steps in the other order: the ceiling first, then the minimum.
RoundThenClamp(item, amount_value) ==
    RMax(MinAmount, IF item.amount_round THEN Int2Rat(RCeil(amount_value)) ELSE amount_value)

\* max(0.01, float(amount_value)), then math.ceil when amount_round is set.
ClampAndRound(item, amount_value) ==
    LET clamped == RMax(MinAmount, amount_value)
    IN  IF item.amount_round THEN Int2Rat(RCeil(clamped)) ELSE clamped

\* A binding rule without the test for the reserved name.
BindsAnyName(item) == item.var_name # ""

\* Whether the item's var_name becomes a variable.
BindsName(item) == item.var_name # "" /\ Lower(item.var_name) # "string"

\* The locals of load_to_boq as one record, for the operators below.
Locals(vs, rs, pd, es, pr) ==
    [variables |-> vs, resolved |-> rs, pending |-> pd, next_pending |-> <<>>,
     errors |-> es, progress |-> pr, raised |-> ""]

\* Locals that start from the errors the load before has left.
LocalsOverOldErrors(items, sc) ==
    Locals([n \in {"string"} |-> Int2Rat(sc)], [i \in {} |-> <<>>],
           [i \in 1..Len(items) |-> i], errors, TRUE)

\* variables = {"string": int(string_count or 0)}; resolved = {};
\* pending = list(enumerate(template_items)); errors = []; progress = True
InitialLocals(items, sc) ==
    Locals([n \in {"string"} |-> Int2Rat(sc)], [i \in {} |-> <<>>],
           [i \in 1..Len(items) |-> i], <<>>, TRUE)

\* A loop body that leaves an item whose expression has no value pending.
AmountItemDefersFailure(st, i, items) ==
    LET item == items[i]
        Resolve(amount_value) ==
            [st EXCEPT
               !.variables = IF BindsName(item)
                             THEN SetItem(@, item.var_name, amount_value)
                             ELSE @,
               !.resolved = SetItem(@, i, [amount |-> amount_value]),
               !.progress = TRUE]
        Evaluated(parsed) ==
            IF ~parsed.ok THEN [st EXCEPT !.raised = parsed.exc]
            ELSE IF parsed = None THEN [st EXCEPT !.next_pending = Append(@, i)]
            ELSE Resolve(ClampAndRound(item, parsed.val))
        Named(names) ==
            IF names \ DOMAIN st.variables # {}
            THEN [st EXCEPT !.next_pending = Append(@, i)]
            ELSE Evaluated(_parse_calc_text(item.amount_expr, st.variables))
    IN  IF st.raised # "" THEN st
        ELSE Named(_extract_expr_names(item.amount_expr))

\* The body of "for idx, item in pending" (469-490) for one item.
AmountItem(st, i, items) ==
    LET item == items[i]
        Resolve(amount_value, failed) ==
            [st EXCEPT
               !.errors = IF failed
                          THEN Append(@, Err(Label(item), "InvalidAmountExpression", {}))
                          ELSE @,
               !.variables = IF BindsName(item)
                             THEN SetItem(@, item.var_name, amount_value)
                             ELSE @,
               !.resolved = SetItem(@, i, [amount |-> amount_value]),
               !.progress = TRUE]
        Evaluated(parsed) ==
            IF ~parsed.ok THEN [st EXCEPT !.raised = parsed.exc]
            ELSE IF parsed = None THEN Resolve(ClampAndRound(item, <<1, 1>>), TRUE)
            ELSE Resolve(ClampAndRound(item, parsed.val), FALSE)
        Named(names) ==
            IF names \ DOMAIN st.variables # {}
            THEN [st EXCEPT !.next_pending = Append(@, i)]
            ELSE Evaluated(_parse_calc_text(item.amount_expr, st.variables))
    IN  IF st.raised # "" THEN st
        ELSE Named(_extract_expr_names(item.amount_expr))

RECURSIVE AmountItemsFrom(_, _, _)
AmountItemsFrom(st, k, items) ==
    IF k > Len(st.pending) THEN st
    ELSE AmountItemsFrom(AmountItem(st, st.pending[k], items), k + 1, items)

\* One iteration of "while pending and progress" (467-491).
AmountPass(st, items) ==
    LET EndPass(r) == [r EXCEPT !.pending = r.next_pending, !.next_pending = <<>>]
    IN  EndPass(AmountItemsFrom([st EXCEPT !.progress = FALSE, !.next_pending = <<>>],
                                1, items))

\* One iteration of the fallback loop (493-502).
UnresolvedItem(st, i, items) ==
    LET item == items[i]
        Fallback(missing) ==
            [st EXCEPT
               !.errors = IF missing # {}
                          THEN Append(@, Err(Label(item), "UnresolvedVariables", missing))
                          ELSE @,
               !.resolved = SetItem(@, i, [amount |-> <<1, 1>>])]
    IN  Fallback(_extract_expr_names(item.amount_expr) \ DOMAIN st.variables)

RECURSIVE UnresolvedFrom(_, _, _)
UnresolvedFrom(st, k, items) ==
    IF k > Len(st.pending) THEN st
    ELSE UnresolvedFrom(UnresolvedItem(st, st.pending[k], items), k + 1, items)

Unresolved(st, items) == UnresolvedFrom(st, 1, items)

RECURSIVE AmountLoop(_, _)
\* while pending and progress (466-491)
AmountLoop(st, items) ==
    IF st.pending # <<>> /\ st.progress /\ st.raised = ""
    THEN AmountLoop(AmountPass(st, items), items)
    ELSE st

\* The amounts of load_to_boq (461-502) as a function of the template and
\* the string count.
ResolveAmounts(items, sc) == Unresolved(AmountLoop(InitialLocals(items, sc), items), items)

(***************************************************************************)
(* The price pass of load_to_boq (504-522).                                *)
(***************************************************************************)
\* A price loop that stores the price under the item's var_name as well.
PriceBoundToName(st, i, items) ==
    LET item == items[i]
        Set(parsed) ==
            [st EXCEPT
               !.variables = IF BindsName(item) /\ parsed # None
                             THEN SetItem(@, item.var_name, parsed.val)
                             ELSE @,
               !.resolved = SetItem(@, i, [amount |-> st.resolved[i].amount,
                                           price |-> parsed])]
    IN  IF item.price_expr = <<>>
           \/ _extract_expr_names(item.price_expr) \ DOMAIN st.variables # {}
        THEN Set(None)
        ELSE Set(_parse_calc_text(item.price_expr, st.variables))

\* One iteration of the price loop (504-522).
PriceItem(st, i, items) ==
    LET item == items[i]
        price_expr == item.price_expr
        Set(price_value, es) ==
            [st EXCEPT
               !.errors = @ \o es,
               !.resolved = SetItem(@, i, [amount |-> st.resolved[i].amount,
                                           price |-> price_value])]
        Evaluated(parsed) ==
            IF ~parsed.ok THEN [st EXCEPT !.raised = parsed.exc]
            ELSE IF parsed = None
            THEN Set(None, <<Err(Label(item), "InvalidPriceExpression", {})>>)
            ELSE IF item.price_round THEN Set(Number(Int2Rat(RCeil(parsed.val))), <<>>)
            ELSE Set(parsed, <<>>)
        Named(missing) ==
            IF missing # {}
            THEN Set(None, <<Err(Label(item), "UnknownVariableInPrice", missing)>>)
            ELSE Evaluated(_parse_calc_text(price_expr, st.variables))
    IN  IF st.raised # "" THEN st
        ELSE IF price_expr = <<>> THEN Set(None, <<>>)
        ELSE Named(_extract_expr_names(price_expr) \ DOMAIN st.variables)

RECURSIVE PriceItemsFrom(_, _, _)
PriceItemsFrom(st, i, items) ==
    IF i > Len(items) THEN st
    ELSE PriceItemsFrom(PriceItem(st, i, items), i + 1, items)

PricePass(st, items) == PriceItemsFrom(st, 1, items)

(***************************************************************************)
(* Collaborators: the product catalog and the currency rates.              *)
(***************************************************************************)
Absent == Value("absent", <<0, 1>>)

Kabel ==
    [id |-> "p1", mehsulun_adi |-> "Kabel", olcu_vahidi |-> "m",
     price |-> <<4, 1>>, currency |-> "AZN", price_azn |-> Number(<<4, 1>>),
     category |-> "kabel", mehsul_menbeyi |-> "anbar"]

\* A product that a template still names and the catalog no longer holds.
Boru ==
    [id |-> "p2", mehsulun_adi |-> "Boru", olcu_vahidi |-> "m",
     price |-> <<7, 1>>, currency |-> "AZN", price_azn |-> Number(<<7, 1>>),
     category |-> "boru", mehsul_menbeyi |-> "anbar"]

\* A product saved with the price input at 0: ProductDialog.get_data stores
\* no price and no AZN price for it.  0 stands for the price None, which
\* the code tests with "if product.get('price')".
Mufta ==
    [id |-> "p3", mehsulun_adi |-> "Mufta", olcu_vahidi |-> "",
     price |-> <<0, 1>>, currency |-> "USD", price_azn |-> None,
     category |-> "", mehsul_menbeyi |-> ""]

Products == {Kabel, Mufta}

ProductIds == {Kabel.id, Boru.id}

rates == [c \in {"AZN", "USD", "EUR"} |->
            CASE c = "AZN" -> <<1, 1>> [] c = "USD" -> <<17, 10>> [] c = "EUR" -> <<0, 1>>]

\* CurrencySettingsManager.convert_to_azn
convert_to_azn(amount, currency) ==
    LET stored == IF currency \in DOMAIN rates THEN rates[currency] ELSE <<1, 1>>
        rate == IF currency = "AZN" THEN <<1, 1>> ELSE stored
    IN  IF rate[1] = 0 THEN <<0, 1>> ELSE RMul(amount, rate)

\* DatabaseManager.read_product: the product, None when no product has
\* the id, or the exception raised when the read fails.
ReadOutcomes(product_id) ==
    {[kind |-> "product", product |-> p] : p \in {q \in Products : q.id = product_id}}
        \cup {[kind |-> "none", product |-> None], [kind |-> "raise", product |-> None]}

\* select_product_for_generic (614-625): the selected product and False
\* when the dialog is accepted; otherwise None and the dialog's skip_all
\* attribute, which ProductSelectionDialog never sets.
SelectOutcomes ==
    {[kind |-> "product", product |-> p, skip_all |-> FALSE] : p \in Products}
        \cup {[kind |-> "none", product |-> None, skip_all |-> FALSE]}

\* selected_product = None while skip_remaining_generic is set (532-533).
NotAsked == [kind |-> "not asked", product |-> None, skip_all |-> TRUE]

\* The outcome SkipAll of the product-selection capability (spec 4.5).
SkipAll == [kind |-> "none", product |-> None, skip_all |-> TRUE]

\* The three outcomes of the capability of spec 4.5: a product, Skipped,
\* SkipAll.
InjectedOutcomes == SelectOutcomes \cup {SkipAll}

(***************************************************************************)
(* Materialization (524-606) and create_boq_item_from_selection.           *)
(***************************************************************************)
OrAZN(currency) == IF currency = "" THEN "AZN" ELSE currency

Truthy(number) == number[1] # 0

NoteFrom(template_item) == <<"Sablondan", template_item.generic_name>>

\* Generic item without a selected product (546-569).
UnboundItem(template_item, amount_value, price_override, nid) ==
    LET currency == OrAZN(template_item.currency)
        unit_price == IF price_override # None THEN price_override.val
                      ELSE template_item.default_price
        unit_price_azn == IF template_item.default_price_azn # None
                          THEN template_item.default_price_azn.val
                          ELSE convert_to_azn(unit_price, currency)
    IN  [id |-> nid, name |-> template_item.generic_name,
         quantity |-> amount_value, unit |-> template_item.unit,
         unit_price |-> unit_price, currency |-> currency,
         unit_price_azn |-> unit_price_azn,
         total |-> RMul(amount_value, unit_price_azn), margin_percent |-> 0,
         category |-> template_item.category, source |-> "",
         note |-> NoteFrom(template_item), is_custom |-> TRUE, product_id |-> "",
         quantity_round |-> template_item.amount_round,
         price_round |-> template_item.price_round]

create_boq_item_from_selection(template_item, product, amount_value, price_override, nid) ==
    LET currency == OrAZN(product.currency)
        unit_price == IF price_override # None THEN price_override.val
                      ELSE IF Truthy(product.price) THEN product.price
                      ELSE template_item.default_price
        stored == IF product.price_azn = Absent THEN template_item.default_price_azn
                  ELSE product.price_azn
        unit_price_azn == IF stored # None THEN stored.val
                          ELSE convert_to_azn(unit_price, currency)
    IN  [id |-> nid, name |-> product.mehsulun_adi,
         quantity |-> amount_value,
         unit |-> IF product.olcu_vahidi # "" THEN product.olcu_vahidi ELSE template_item.unit,
         unit_price |-> unit_price, currency |-> currency,
         unit_price_azn |-> unit_price_azn,
         total |-> RMul(unit_price_azn, amount_value), margin_percent |-> 0,
         category |-> product.category, source |-> product.mehsul_menbeyi,
         note |-> NoteFrom(template_item), is_custom |-> FALSE, product_id |-> product.id,
         quantity_round |-> template_item.amount_round,
         price_round |-> template_item.price_round]

\* DB-linked item whose product was read (577-603).
DbLinkedItem(template_item, product, amount_value, price_override, nid) ==
    LET currency == OrAZN(product.currency)
        unit_price == IF price_override # None THEN price_override.val
                      ELSE IF Truthy(product.price) THEN product.price
                      ELSE <<0, 1>>
        stored == IF product.price_azn = Absent THEN None ELSE product.price_azn
        unit_price_azn == IF stored # None THEN stored.val
                          ELSE convert_to_azn(unit_price, currency)
    IN  [id |-> nid, name |-> product.mehsulun_adi,
         quantity |-> amount_value,
         unit |-> IF product.olcu_vahidi # "" THEN product.olcu_vahidi ELSE "eded",
         unit_price |-> unit_price, currency |-> currency,
         unit_price_azn |-> unit_price_azn,
         total |-> RMul(amount_value, unit_price_azn), margin_percent |-> 0,
         category |-> product.category, source |-> product.mehsul_menbeyi,
         note |-> <<>>, is_custom |-> FALSE, product_id |-> template_item.product_id,
         quantity_round |-> template_item.amount_round,
         price_round |-> template_item.price_round]

\* A test that takes every item for a generic one.
EveryItemIsGeneric(template_item) == TRUE

\* template_item.get('is_generic') or not template_item.get('product_id')
IsGeneric(template_item) == template_item.is_generic \/ template_item.product_id = ""

(***************************************************************************)
(* Template items: the dictionaries TemplateItemDialog.get_data and        *)
(* add_item_from_db build, with the expression fields as token sequences.  *)
(***************************************************************************)
GenericItem(generic_name, var_name, amount_expr, price_expr, amount_round, price_round) ==
    [generic_name |-> generic_name, var_name |-> var_name,
     amount_expr |-> amount_expr, price_expr |-> price_expr,
     amount_round |-> amount_round, price_round |-> price_round,
     category |-> "", unit |-> "m", default_price |-> <<3, 2>>, currency |-> "USD",
     default_price_azn |-> Number(convert_to_azn(<<3, 2>>, "USD")),
     product_id |-> "", is_generic |-> TRUE]

DbItem(product, var_name, amount_expr, price_expr) ==
    [generic_name |-> product.mehsulun_adi, var_name |-> var_name,
     amount_expr |-> amount_expr, price_expr |-> price_expr,
     amount_round |-> FALSE, price_round |-> FALSE,
     category |-> product.category, unit |-> product.olcu_vahidi,
     default_price |-> product.price, currency |-> product.currency,
     default_price_azn |-> product.price_azn,
     product_id |-> product.id, is_generic |-> FALSE]

\* The items the templates of the model are made of.
Catalogue ==
    { GenericItem("A", "x", <<"2">>, <<>>, FALSE, FALSE),
      GenericItem("B", "", <<"x", "*", "3">>, <<"x", "+", "0.5">>, FALSE, TRUE),
      GenericItem("C", "y", <<"x", "-", "5">>, <<"y", "*", "2">>, TRUE, FALSE),
      GenericItem("D", "", <<"y", "+", "0.5">>, <<>>, TRUE, FALSE),
      GenericItem("Cable", "m", <<"string", "*", "2">>, <<>>, FALSE, FALSE),
      GenericItem("Clamp", "", <<"ceil", "(", "m", "/", "10", ")">>, <<>>, FALSE, FALSE),
      GenericItem("G", "String", <<"2.3">>, <<"1", "/", "0">>, TRUE, FALSE),
      GenericItem("I", "z", <<"1", "/", "0">>, <<"z">>, FALSE, FALSE),
      GenericItem("J", "", <<"=", "x", "*", "2">>, <<>>, FALSE, FALSE),
      GenericItem("K", "a", <<"a", "+", "1">>, <<"a">>, FALSE, FALSE),
      GenericItem("P", "", <<"1">>, <<"=", "w">>, FALSE, FALSE),
      DbItem(Kabel, "x", <<"3">>, <<"w">>),
      DbItem(Boru, "", <<"b", "+", "1">>, <<>>) }

RECURSIVE SeqsUpTo(_, _)
SeqsUpTo(S, n) ==
    IF n = 0 THEN {<<>>}
    ELSE LET shorter == SeqsUpTo(S, n - 1)
         IN  shorter \cup {Append(t, e) : t \in {u \in shorter : Len(u) = n - 1}, e \in S}

Injective(t) == \A i, j \in 1..Len(t) : t[i] = t[j] => i = j

\* An item with an amount error and a price error.
Faulty(generic_name) ==
    GenericItem(generic_name, "", <<"1", "/", "0">>, <<"w">>, FALSE, FALSE)

\* A template with more errors than the warning box shows.
FaultyTemplate ==
    <<Faulty("F1"), Faulty("F2"), Faulty("F3"), Faulty("F4"), Faulty("F5")>>

\* A template in which two items declare the name that a third one uses.
DuplicateTemplate ==
    <<DbItem(Kabel, "x", <<"3">>, <<"w">>),
      GenericItem("A", "x", <<"2">>, <<>>, FALSE, FALSE),
      GenericItem("B", "", <<"x", "*", "3">>, <<"x", "+", "0.5">>, FALSE, TRUE)>>

\* The templates of up to MaxItems different items, and some longer or
\* special ones; in the cyclic templates two items each use the name the
\* other declares, and in the second of them the first expression is
\* written with the "=" prefix; in the fallback template an item uses the
\* name of an item whose expression has no value, and in the last one an
\* item uses, behind the "=" prefix, the name of an unresolved item.
Templates ==
    LET N == GenericItem("N", "b", <<"a", "*", "2">>, <<>>, FALSE, FALSE)
        CyclicTemplates ==
            { <<GenericItem("M", "a", <<"b", "+", "1">>, <<"a">>, FALSE, FALSE), N>>,
              <<GenericItem("M", "a", <<"=", "b", "+", "1">>, <<>>, FALSE, FALSE), N>> }
        FallbackTemplate ==
            <<GenericItem("I", "z", <<"1", "/", "0">>, <<"z">>, FALSE, FALSE),
              GenericItem("Z", "", <<"z", "*", "2">>, <<>>, FALSE, FALSE)>>
        UnboundNameTemplate ==
            <<GenericItem("K", "a", <<"a", "+", "1">>, <<"a">>, FALSE, FALSE),
              GenericItem("Q", "", <<"=", "a", "*", "2">>, <<"=", "a">>, FALSE, FALSE)>>
    IN  {t \in SeqsUpTo(Catalogue, MaxItems) : Injective(t)}
            \cup {FaultyTemplate, DuplicateTemplate, FallbackTemplate, UnboundNameTemplate}
            \cup CyclicTemplates

StringCounts == {0, 5}

\* An estimate item that was entered by hand before the load.
Existing ==
    [id |-> 1, name |-> "Existing", quantity |-> <<1, 1>>, unit |-> "eded",
     unit_price |-> <<1, 1>>, currency |-> "AZN", unit_price_azn |-> <<1, 1>>,
     total |-> <<1, 1>>, margin_percent |-> 0, category |-> "", source |-> "",
     note |-> <<>>, is_custom |-> TRUE, product_id |-> "",
     quantity_round |-> FALSE, price_round |-> FALSE]

Estimates == {[boq_items |-> <<>>, next_id |-> 1],
              [boq_items |-> <<Existing>>, next_id |-> 2]}

(***************************************************************************)
(* The load operation, one action per phase of load_to_boq.                *)
(***************************************************************************)
NotCalled == Value("not called", <<0, 1>>)

\* The value a price input shows before anything is typed.
SpinStart == <<5, 1>>

\* A template collection without documents.
NoTemplates == <<>>

NoLocals == Locals([n \in {} |-> <<0, 1>>], [i \in {} |-> <<>>], <<>>, <<>>, FALSE)

Init ==
    /\ template_items \in Templates
    /\ boq_window \in BOOLEAN
    /\ load_result = "none"
    /\ string_count \in StringCounts
    /\ \E e \in Estimates : boq_items = e.boq_items /\ next_id = e.next_id
    /\ pc = "Idle"
    /\ variables = NoLocals.variables
    /\ resolved = NoLocals.resolved
    /\ pending = <<>>
    /\ errors = <<>>
    /\ progress = FALSE
    /\ idx = 0
    /\ items_added = 0
    /\ skip_remaining_generic = FALSE
    /\ warnings = <<>>
    /\ reported = -1
    /\ replace_mode = FALSE
    /\ calls = <<>>
    /\ store = NoTemplates
    /\ save_result = "none"
    /\ current_template_id = 0
    /\ spinbox = SpinStart
    /\ calc_text = <<>>
    /\ calc_env = EmptyEnv
    /\ calc_escaped = ""
    /\ last_eval = NotCalled
    /\ last_calc = NotCalled

\* A load_to_boq without its early returns.
NeverReturnsEarly(reply) == "Started"

\* 437-453: the returns of load_to_boq before anything is written, in the
\* order of the code: the template without items, the window without an
\* estimate window, the question answered with Cancel.
EarlyReturn(reply) ==
    IF template_items = <<>> THEN "NoItems"
    ELSE IF ~boq_window THEN "NoWindow"
    ELSE IF reply = "Cancel" THEN "Cancelled"
    ELSE "Started"

\* A replace mode that empties the list and keeps the counter.
LoadToBoqKeepsCounter(reply) ==
    /\ pc = "Idle"
    /\ load_result' = EarlyReturn(reply)
    /\ IF EarlyReturn(reply) # "Started"
       THEN UNCHANGED <<estimate_vars, local_vars, pc>>
       ELSE LET st == InitialLocals(template_items, string_count)
            IN  /\ boq_items' = IF reply = "Yes" THEN <<>> ELSE boq_items
                /\ next_id' = next_id
                /\ variables' = st.variables
                /\ resolved' = st.resolved
                /\ pending' = st.pending
                /\ errors' = st.errors
                /\ progress' = st.progress
                /\ replace_mode' = (reply = "Yes")
                /\ pc' = "ResolvingAmounts"
                /\ UNCHANGED <<idx, items_added, skip_remaining_generic, calls>>
    /\ UNCHANGED <<template_items, boq_window, string_count, warnings, reported, calc_vars,
                   save_vars>>

\* 437-465: the early returns, the loading mode and the initial locals.
LoadToBoq(reply) ==
    /\ pc = "Idle"
    /\ load_result' = EarlyReturn(reply)
    /\ IF EarlyReturn(reply) # "Started"
       THEN UNCHANGED <<estimate_vars, local_vars, pc>>
       ELSE LET st == InitialLocals(template_items, string_count)
            IN  /\ boq_items' = IF reply = "Yes" THEN <<>> ELSE boq_items
                /\ next_id' = IF reply = "Yes" THEN 1 ELSE next_id
                /\ variables' = st.variables
                /\ resolved' = st.resolved
                /\ pending' = st.pending
                /\ errors' = st.errors
                /\ progress' = st.progress
                /\ replace_mode' = (reply = "Yes")
                /\ pc' = "ResolvingAmounts"
                /\ UNCHANGED <<idx, items_added, skip_remaining_generic, calls>>
    /\ UNCHANGED <<template_items, boq_window, string_count, warnings, reported, calc_vars,
                   save_vars>>

\* 466-491: one iteration of "while pending and progress".
AmountPassStep ==
    /\ pc = "ResolvingAmounts"
    /\ pending # <<>> /\ progress
    /\ LET Continue(st) ==
               IF st.raised # ""
               THEN /\ pc' = "Aborted"
                    /\ UNCHANGED <<variables, resolved, pending, errors, progress>>
               ELSE /\ variables' = st.variables
                    /\ resolved' = st.resolved
                    /\ pending' = st.pending
                    /\ errors' = st.errors
                    /\ progress' = st.progress
                    /\ pc' = pc
       IN  Continue(AmountPass(Locals(variables, resolved, pending, errors, progress),
                               template_items))
    /\ UNCHANGED <<template_items, boq_window, load_result, string_count, estimate_vars, idx, items_added,
                   skip_remaining_generic, warnings, reported, replace_mode, calls,
                   calc_vars, save_vars>>

\* 493-502: the loop has ended; the items still pending get the fallback.
FinishAmounts ==
    /\ pc = "ResolvingAmounts"
    /\ ~(pending # <<>> /\ progress)
    /\ LET Continue(st) == resolved' = st.resolved /\ errors' = st.errors
       IN  Continue(Unresolved(Locals(variables, resolved, pending, errors, progress),
                               template_items))
    /\ pc' = "ResolvingPrices"
    /\ UNCHANGED <<template_items, boq_window, load_result, string_count, estimate_vars, variables, pending,
                   progress, idx, items_added, skip_remaining_generic, warnings,
                   reported, replace_mode, calls, calc_vars, save_vars>>

\* 504-526: the price pass, then the locals of the materialization loop.
ResolvePrices ==
    /\ pc = "ResolvingPrices"
    /\ LET Continue(st) ==
               IF st.raised # ""
               THEN pc' = "Aborted" /\ UNCHANGED <<variables, resolved, errors, idx>>
               ELSE /\ variables' = st.variables
                    /\ resolved' = st.resolved
                    /\ errors' = st.errors
                    /\ idx' = 1
                    /\ pc' = "MaterializingItems"
       IN  Continue(PricePass(Locals(variables, resolved, pending, errors, progress),
                              template_items))
    /\ items_added' = 0
    /\ skip_remaining_generic' = FALSE
    /\ UNCHANGED <<template_items, boq_window, load_result, string_count, estimate_vars, pending,
                   progress, warnings, reported, replace_mode, calls, calc_vars, save_vars>>

\* A call of a collaborator for the template item at index item.
Invocation(what, item) == [what |-> what, item |-> item]

\* A loop that asks for a product whatever skip_remaining_generic holds.
AlwaysPrompts(skip) == TRUE

\* if not skip_remaining_generic (533): whether the item is asked about.
Prompts(skip) == ~skip

\* 527-572: one generic item, with the outcome of the product selection,
\* which is one of outcomes when the selection is asked for.
MaterializeGenericWith(outcomes, outcome) ==
    /\ pc = "MaterializingItems"
    /\ idx <= Len(template_items)
    /\ IsGeneric(template_items[idx])
    /\ outcome \in (IF Prompts(skip_remaining_generic) THEN outcomes ELSE {NotAsked})
    /\ LET template_item == template_items[idx]
           amount_value == resolved[idx].amount
           price_override == resolved[idx].price
           new_item == IF outcome.kind = "product"
                       THEN create_boq_item_from_selection(template_item, outcome.product,
                                amount_value, price_override, next_id)
                       ELSE UnboundItem(template_item, amount_value, price_override, next_id)
       IN  /\ boq_items' = Append(boq_items, new_item)
           /\ next_id' = next_id + 1
           /\ items_added' = items_added + 1
    /\ skip_remaining_generic' = outcome.skip_all
    /\ calls' = IF Prompts(skip_remaining_generic)
                THEN Append(calls, Invocation("select_product_for_generic", idx))
                ELSE calls
    /\ idx' = idx + 1
    /\ UNCHANGED <<template_items, boq_window, load_result, string_count, pc, variables, resolved, pending,
                   errors, progress, warnings, reported, replace_mode, calc_vars, save_vars>>

\* The generic item with ProductSelectionDialog as the selection.
MaterializeGeneric(outcome) == MaterializeGenericWith(SelectOutcomes, outcome)

\* The generic item with the capability of spec 4.5 as the selection.
MaterializeGenericInjected(outcome) == MaterializeGenericWith(InjectedOutcomes, outcome)

\* 573-606: one DB-linked item, with the outcome of read_product.
MaterializeDbLinked(outcome) ==
    /\ pc = "MaterializingItems"
    /\ idx <= Len(template_items)
    /\ ~IsGeneric(template_items[idx])
    /\ outcome \in ReadOutcomes(template_items[idx].product_id)
    /\ LET template_item == template_items[idx]
           amount_value == resolved[idx].amount
           price_override == resolved[idx].price
       IN  CASE outcome.kind = "product" ->
                  /\ boq_items' = Append(boq_items,
                        DbLinkedItem(template_item, outcome.product, amount_value,
                                     price_override, next_id))
                  /\ next_id' = next_id + 1
                  /\ items_added' = items_added + 1
                  /\ idx' = idx + 1
                  /\ pc' = pc
             [] outcome.kind = "none" ->
                  /\ idx' = idx + 1
                  /\ UNCHANGED <<estimate_vars, items_added, pc>>
             [] outcome.kind = "raise" ->
                  /\ pc' = "Aborted"
                  /\ UNCHANGED <<estimate_vars, items_added, idx>>
    /\ calls' = Append(calls, Invocation("read_product", idx))
    /\ UNCHANGED <<template_items, boq_window, load_result, string_count, variables, resolved, pending,
                   errors, progress, skip_remaining_generic, warnings, reported,
                   replace_mode, calc_vars, save_vars>>

\* errors[:8]
MaxShown == 8

FirstN(seq, n) == SubSeq(seq, 1, IF Len(seq) < n THEN Len(seq) ELSE n)

\* An end of the load that leaves the window open for another load.
FinishLoadStaysOpen ==
    /\ pc = "MaterializingItems"
    /\ idx > Len(template_items)
    /\ warnings' = IF errors # <<>> THEN Append(warnings, FirstN(errors, MaxShown))
                   ELSE warnings
    /\ reported' = items_added
    /\ pc' = "Idle"
    /\ UNCHANGED <<template_items, boq_window, load_result, string_count, estimate_vars, local_vars, calc_vars, save_vars>>

\* 608-612: the warning box with the collected errors, then the count.
FinishLoad ==
    /\ pc = "MaterializingItems"
    /\ idx > Len(template_items)
    /\ warnings' = IF errors # <<>> THEN Append(warnings, FirstN(errors, MaxShown))
                   ELSE warnings
    /\ reported' = items_added
    /\ pc' = "Done"
    /\ UNCHANGED <<template_items, boq_window, load_result, string_count, estimate_vars, local_vars, calc_vars, save_vars>>

Replies == {"Yes", "No", "Cancel"}

Next ==
    \/ \E reply \in Replies : LoadToBoq(reply)
    \/ AmountPassStep
    \/ FinishAmounts
    \/ ResolvePrices
    \/ \E outcome \in SelectOutcomes \cup {NotAsked} : MaterializeGeneric(outcome)
    \/ \E product_id \in ProductIds :
          \E outcome \in ReadOutcomes(product_id) : MaterializeDbLinked(outcome)
    \/ FinishLoad

Spec == Init /\ [][Next]_vars

\* The load with a product selection that can signal SkipAll.
NextInjected ==
    \/ \E reply \in Replies : LoadToBoq(reply)
    \/ AmountPassStep
    \/ FinishAmounts
    \/ ResolvePrices
    \/ \E outcome \in InjectedOutcomes \cup {NotAsked} : MaterializeGenericInjected(outcome)
    \/ \E product_id \in ProductIds :
          \E outcome \in ReadOutcomes(product_id) : MaterializeDbLinked(outcome)
    \/ FinishLoad

SpecInjected == Init /\ [][NextInjected]_vars

(***************************************************************************)
(* The evaluators on their own: a text typed into a price input, and the   *)
(* same text given to _parse_calc_text with an environment.                *)
(***************************************************************************)
EvalAlphabet == {"0", "1", "2", "x", "True", "'a'", "+", "-", "*", "/", "**",
                 "(", ")", "[", "]", ".", ","}

Exprs == SeqsUpTo(EvalAlphabet, MaxTokens)

Texts == Exprs \cup {<<"=">> \o e : e \in Exprs}

Envs == {EmptyEnv, [n \in {"x"} |-> <<2, 1>>]}

InitEval ==
    /\ template_items = <<>>
    /\ boq_window = TRUE
    /\ load_result = "none"
    /\ string_count = 0
    /\ boq_items = <<>>
    /\ next_id = 1
    /\ pc = "Idle"
    /\ variables = NoLocals.variables
    /\ resolved = NoLocals.resolved
    /\ pending = <<>>
    /\ errors = <<>>
    /\ progress = FALSE
    /\ idx = 0
    /\ items_added = 0
    /\ skip_remaining_generic = FALSE
    /\ warnings = <<>>
    /\ reported = -1
    /\ replace_mode = FALSE
    /\ calls = <<>>
    /\ store = NoTemplates
    /\ save_result = "none"
    /\ current_template_id = 0
    /\ spinbox = SpinStart
    /\ calc_text \in Texts
    /\ calc_env \in Envs
    /\ calc_escaped = ""
    /\ last_eval = NotCalled
    /\ last_calc = NotCalled

\* editingFinished of the input: _apply_calc_to_spinbox on its text.
ApplyCalcToSpinbox ==
    /\ LET Set(r) == spinbox' = r.value /\ calc_escaped' = r.escaped
       IN  Set(_apply_calc_to_spinbox(spinbox, calc_text))
    /\ last_eval' = IF calc_text # <<>> /\ Head(calc_text) = "=" /\ Tail(calc_text) # <<>>
                    THEN _safe_eval_expr(Tail(calc_text))
                    ELSE last_eval
    /\ UNCHANGED <<load_vars, save_vars, calc_text, calc_env, last_calc>>

ParseCalcText ==
    /\ last_calc' = _parse_calc_text(calc_text, calc_env)
    /\ UNCHANGED <<load_vars, save_vars, spinbox, calc_text, calc_env, calc_escaped,
                   last_eval>>

NextEval == ApplyCalcToSpinbox \/ ParseCalcText

SpecEval == InitEval /\ [][NextEval]_vars

(***************************************************************************)
(* save_template: the checks of the variable names, then the write to the  *)
(* template store.  A var_name is the text left by .strip().               *)
(***************************************************************************)
\* The characters of the variable names of the model.
Chars(name) ==
    CASE name = "" -> <<>>
      [] name = "x" -> <<"x">>
      [] name = "X" -> <<"X">>
      [] name = "y" -> <<"y">>
      [] name = "string" -> <<"s", "t", "r", "i", "n", "g">>
      [] name = "String" -> <<"S", "t", "r", "i", "n", "g">>
      [] name = "2x" -> <<"2", "x">>
      [] name = "a-b" -> <<"a", "-", "b">>
      [] name = "_a1" -> <<"_", "a", "1">>

\* A check that lets every name through.
AnyNameIsValid(name) == TRUE

\* re.match(r"^[A-Za-z_][A-Za-z0-9_]*$", name or "")
_is_valid_variable_name(name) ==
    LET Letters ==
            {"a", "b", "c", "d", "e", "f", "g", "h", "i", "j", "k", "l", "m",
             "n", "o", "p", "q", "r", "s", "t", "u", "v", "w", "x", "y", "z",
             "A", "B", "C", "D", "E", "F", "G", "H", "I", "J", "K", "L", "M",
             "N", "O", "P", "Q", "R", "S", "T", "U", "V", "W", "X", "Y", "Z"}
        Digits == {"0", "1", "2", "3", "4", "5", "6", "7", "8", "9"}
        cs == Chars(name)
    IN  /\ cs # <<>>
        /\ cs[1] \in Letters \cup {"_"}
        /\ \A k \in 2..Len(cs) : cs[k] \in Letters \cup Digits \cup {"_"}

RECURSIVE CheckVarNames(_, _, _)
\* The loop over the items (393-407), from item k with the keys used_vars:
\* the warning box that ends the save, or none.
CheckVarNames(items, k, used_vars) ==
    IF k > Len(items) THEN [ok |-> TRUE, box |-> ""]
    ELSE LET var_name == items[k].var_name
             Rejected(box) == [ok |-> FALSE, box |-> box]
         IN  IF var_name = "" THEN CheckVarNames(items, k + 1, used_vars)
             ELSE IF Lower(var_name) = "string" THEN Rejected("reserved name")
             ELSE IF ~_is_valid_variable_name(var_name) THEN Rejected("invalid name")
             ELSE IF Lower(var_name) \in used_vars THEN Rejected("duplicate name")
             ELSE CheckVarNames(items, k + 1, used_vars \cup {Lower(var_name)})

\* The item save_template hands to the database (411-426) as
\* DatabaseManager.save_template stores it (db.py 410-426).
StoredItem(item) ==
    [name |-> item.generic_name, unit |-> item.unit,
     default_price |-> item.default_price,
     default_price_azn |-> item.default_price_azn,
     currency |-> OrAZN(item.currency), category |-> item.category,
     source |-> "", note |-> "", is_custom |-> FALSE,
     product_id |-> item.product_id, var_name |-> item.var_name,
     amount_expr |-> item.amount_expr, price_expr |-> item.price_expr]

\* A save that inserts a document whether or not the name is stored.
InsertsAlways(templates, template_name, items) ==
    Append(templates, [id |-> Len(templates) + 1, name |-> template_name, items |-> items])

\* find_one({'name': template_name}), then update_one on the document
\* found or insert_one of a new document, which gets an id that no
\* document has (db.py 429-447).
Upsert(templates, template_name, items) ==
    LET existing == {k \in 1..Len(templates) : templates[k].name = template_name}
        first == CHOOSE k \in existing : \A j \in existing : k <= j
        _id == CHOOSE n \in 1..(Len(templates) + 1) :
                   \A k \in 1..Len(templates) : templates[k].id # n
    IN  IF existing # {}
        THEN [templates EXCEPT ![first].items = items]
        ELSE Append(templates, [id |-> _id, name |-> template_name, items |-> items])

\* save_template with the text of the name input and the outcome of the
\* database call: "saved", or "raise" when the database fails.
SaveTemplate(template_name, outcome) ==
    /\ LET checked == CheckVarNames(template_items, 1, {})
       IN  IF template_name = ""
           THEN save_result' = "empty name" /\ store' = store
           ELSE IF template_items = <<>>
           THEN save_result' = "no items" /\ store' = store
           ELSE IF ~checked.ok
           THEN save_result' = checked.box /\ store' = store
           ELSE IF outcome = "raise"
           THEN save_result' = "critical" /\ store' = store
           ELSE /\ store' = Upsert(store, template_name,
                                   [k \in 1..Len(template_items) |->
                                       StoredItem(template_items[k])])
                /\ save_result' = "saved"
    /\ UNCHANGED <<load_vars, calc_vars, current_template_id>>

\* A stored item as load_to_boq reads it with item.get: the label is
\* get('generic_name', get('name', '')), which is the stored name, and the
\* keys the document does not hold, amount_round, price_round and
\* is_generic, read as None, which is false.
LoadedItem(stored) ==
    [generic_name |-> stored.name, var_name |-> stored.var_name,
     amount_expr |-> stored.amount_expr, price_expr |-> stored.price_expr,
     amount_round |-> FALSE, price_round |-> FALSE,
     category |-> stored.category, unit |-> stored.unit,
     default_price |-> stored.default_price, currency |-> stored.currency,
     default_price_azn |-> stored.default_price_azn,
     product_id |-> stored.product_id, is_generic |-> FALSE]

\* on_template_selected (204-218) for the row of the template with the id:
\* DatabaseManager.load_template finds the document with the id, or None,
\* and the items of the stored template become the items of the window.
on_template_selected(template_id) ==
    /\ LET found == {k \in 1..Len(store) : store[k].id = template_id}
           template == IF found = {} THEN None ELSE store[CHOOSE k \in found : TRUE]
       IN  IF template = None
           THEN UNCHANGED <<template_items, current_template_id>>
           ELSE /\ current_template_id' = template_id
                /\ template_items' = [k \in 1..Len(template.items) |->
                                         LoadedItem(template.items[k])]
    /\ UNCHANGED <<boq_window, load_result, string_count, estimate_vars, pc, local_vars,
                   warnings, reported, calc_vars, store, save_result>>

\* delete_template (270-291) for the row of the template with the id, the
\* question answered with Yes: delete_one (db.py 485-497), then
\* create_new_template when the template is the one the window shows.
delete_template(template_id) ==
    /\ store' = SelectSeq(store, LAMBDA template : template.id # template_id)
    /\ IF current_template_id = template_id
       THEN template_items' = <<>> /\ current_template_id' = 0
       ELSE UNCHANGED <<template_items, current_template_id>>
    /\ UNCHANGED <<boq_window, load_result, string_count, estimate_vars, pc, local_vars,
                   warnings, reported, calc_vars, save_result>>

\* A template window with up to MaxItems items, whose variable names are
\* any of nine texts, over a store that is empty or holds the template T.
InitSave ==
    /\ LET SaveNames == {"", "x", "X", "y", "string", "String", "2x", "a-b", "_a1"}
           SaveItem(var_name) == GenericItem("S", var_name, <<"2.3">>, <<>>, TRUE, FALSE)
       IN  /\ template_items \in {[k \in 1..Len(t) |-> SaveItem(t[k])] :
                                     t \in SeqsUpTo(SaveNames, MaxItems)}
           /\ store \in {NoTemplates,
                          Upsert(NoTemplates, "T", <<StoredItem(SaveItem("y"))>>)}
    /\ boq_window = TRUE
    /\ load_result = "none"
    /\ string_count = 0
    /\ boq_items = <<>>
    /\ next_id = 1
    /\ pc = "Idle"
    /\ variables = NoLocals.variables
    /\ resolved = NoLocals.resolved
    /\ pending = <<>>
    /\ errors = <<>>
    /\ progress = FALSE
    /\ idx = 0
    /\ items_added = 0
    /\ skip_remaining_generic = FALSE
    /\ warnings = <<>>
    /\ reported = -1
    /\ replace_mode = FALSE
    /\ calls = <<>>
    /\ save_result = "none"
    /\ current_template_id = 0
    /\ spinbox = SpinStart
    /\ calc_text = <<>>
    /\ calc_env = EmptyEnv
    /\ calc_escaped = ""
    /\ last_eval = NotCalled
    /\ last_calc = NotCalled

\* The rows of the template list are those of the stored templates.
NextSave ==
    \/ \E template_name \in {"", "T", "U"}, outcome \in {"saved", "raise"} :
          SaveTemplate(template_name, outcome)
    \/ \E k \in 1..Len(store) : on_template_selected(store[k].id)
    \/ \E k \in 1..Len(store) : delete_template(store[k].id)

SpecSave == InitSave /\ [][NextSave]_vars

(***************************************************************************)
(* A session of the estimate window: items are added, deleted and moved    *)
(* by hand (boq_window.py 364-499), and the template window is opened,     *)
(* which is modal, for one load after another.  pc = "Closed" while no     *)
(* template window is open.  The locals of a load that has ended are kept  *)
(* as they were left, so that a load that read one of them would show.     *)
(***************************************************************************)
\* The most lines the estimate of a session holds.
MaxLines == MaxItems

\* The highest id a session hands out.
MaxId == MaxLines + 2

InitSession ==
    /\ template_items = <<>>
    /\ boq_window = TRUE
    /\ load_result = "none"
    /\ string_count = 0
    /\ boq_items = <<>>
    /\ next_id = 1
    /\ pc = "Closed"
    /\ variables = NoLocals.variables
    /\ resolved = NoLocals.resolved
    /\ pending = <<>>
    /\ errors = <<>>
    /\ progress = FALSE
    /\ idx = 0
    /\ items_added = 0
    /\ skip_remaining_generic = FALSE
    /\ warnings = <<>>
    /\ reported = -1
    /\ replace_mode = FALSE
    /\ calls = <<>>
    /\ store = NoTemplates
    /\ save_result = "none"
    /\ current_template_id = 0
    /\ spinbox = SpinStart
    /\ calc_text = <<>>
    /\ calc_env = EmptyEnv
    /\ calc_escaped = ""
    /\ last_eval = NotCalled
    /\ last_calc = NotCalled

\* add_from_database / add_custom_item with the dialog accepted: the data
\* of the dialog gets next_id as its id and is appended.
AddItem(data) ==
    /\ pc \in {"Closed", "Done"}
    /\ Len(boq_items) < MaxLines /\ next_id < MaxId
    /\ boq_items' = Append(boq_items, [data EXCEPT !.id = next_id])
    /\ next_id' = next_id + 1
    /\ UNCHANGED <<template_items, boq_window, load_result, string_count, pc, local_vars,
                   warnings, reported, calc_vars, save_vars>>

\* delete_item with the rows selected and the question answered with Yes.
delete_item(rows) ==
    /\ pc \in {"Closed", "Done"}
    /\ rows # {} /\ rows \subseteq 1..Len(boq_items)
    /\ boq_items' = SelectSeq([k \in 1..Len(boq_items) |->
                                  IF k \in rows THEN None ELSE boq_items[k]],
                              LAMBDA line : line # None)
    /\ UNCHANGED <<template_items, boq_window, load_result, string_count, next_id, pc, local_vars,
                   warnings, reported, calc_vars, save_vars>>

\* _renumber_items without the loop over the lines.
KeepsIds(lines) == lines

\* for idx, item in enumerate(self.boq_items, start=1): item['id'] = idx
_renumber_items(lines) == [k \in 1..Len(lines) |-> [lines[k] EXCEPT !.id = k]]

\* move_item_up of the line at selected_row, which is not the first one.
move_item_up(selected_row) ==
    /\ pc \in {"Closed", "Done"}
    /\ selected_row \in 2..Len(boq_items)
    /\ LET swapped == [boq_items EXCEPT ![selected_row] = boq_items[selected_row - 1],
                                        ![selected_row - 1] = boq_items[selected_row]]
       IN  boq_items' = _renumber_items(swapped)
    /\ next_id' = Len(boq_items) + 1
    /\ UNCHANGED <<template_items, boq_window, load_result, string_count, pc, local_vars,
                   warnings, reported, calc_vars, save_vars>>

\* move_item_down of the line at selected_row, which is not the last one.
move_item_down(selected_row) ==
    /\ pc \in {"Closed", "Done"}
    /\ selected_row \in 1..(Len(boq_items) - 1)
    /\ LET swapped == [boq_items EXCEPT ![selected_row] = boq_items[selected_row + 1],
                                        ![selected_row + 1] = boq_items[selected_row]]
       IN  boq_items' = _renumber_items(swapped)
    /\ next_id' = Len(boq_items) + 1
    /\ UNCHANGED <<template_items, boq_window, load_result, string_count, pc, local_vars,
                   warnings, reported, calc_vars, save_vars>>

\* update_string_count with the value of the input field.
update_string_count(value) ==
    /\ pc \in {"Closed", "Done"}
    /\ string_count' = value
    /\ UNCHANGED <<template_items, boq_window, load_result, estimate_vars, pc, local_vars,
                   warnings, reported, calc_vars, save_vars>>

\* open_template_management and on_template_selected: a new template
\* window over the estimate, with the items of the selected template.
open_template_management(items) ==
    /\ pc \in {"Closed", "Done"}
    /\ Len(boq_items) + Len(items) <= MaxLines
    /\ next_id + Len(items) <= MaxId
    /\ template_items' = items
    /\ boq_window' = TRUE
    /\ load_result' = "none"
    /\ pc' = "Idle"
    /\ calls' = <<>>
    /\ warnings' = <<>>
    /\ reported' = -1
    /\ UNCHANGED <<string_count, estimate_vars, variables, resolved, pending, errors,
                   progress, idx, items_added, skip_remaining_generic, replace_mode,
                   calc_vars, save_vars>>

\* The steps of a session.  The dialogs of the estimate window give a line
\* entered by hand or the line of a product; the store holds four
\* templates.
NextSession ==
    LET ManualLines ==
            {Existing,
             DbLinkedItem(DbItem(Kabel, "", <<"1">>, <<>>), Kabel, <<1, 1>>, None, 1)}
        SessionTemplates ==
            { <<GenericItem("A", "x", <<"2">>, <<>>, FALSE, FALSE),
                GenericItem("B", "", <<"x", "*", "3">>, <<"x", "+", "0.5">>, FALSE, TRUE)>>,
              <<GenericItem("I", "z", <<"1", "/", "0">>, <<"z">>, FALSE, FALSE),
                DbItem(Kabel, "x", <<"3">>, <<"w">>)>>,
              <<GenericItem("Cable", "m", <<"string", "*", "2">>, <<>>, FALSE, FALSE)>>,
              <<GenericItem("B", "", <<"x", "*", "3">>, <<"x", "+", "0.5">>, FALSE, TRUE)>> }
    IN  \/ Next
        \/ \E data \in ManualLines : AddItem(data)
        \/ \E rows \in SUBSET (1..MaxLines) : delete_item(rows)
        \/ \E selected_row \in 1..MaxLines : move_item_up(selected_row)
        \/ \E selected_row \in 1..MaxLines : move_item_down(selected_row)
        \/ \E value \in StringCounts : update_string_count(value)
        \/ \E items \in SessionTemplates : open_template_management(items)

SpecSession == InitSession /\ [][NextSession]_vars

(***************************************************************************)
(* Properties of the amount resolution.                                    *)
(***************************************************************************)
Range(seq) == {seq[k] : k \in 1..Len(seq)}

\* The amount passes and the fallback are over.
AmountsSettled == pc \in {"ResolvingPrices", "MaterializingItems", "Done"}

\* The price pass is over.
PricesSettled == pc \in {"MaterializingItems", "Done"}

\* Item i of the template has been through the materialization loop.
Materialized(i) == pc = "Done" \/ (pc = "MaterializingItems" /\ idx > i)

\* The expression a text holds: the text without the "=" prefix that
\* _parse_calc_text accepts.
Written(expr) == IF expr # <<>> /\ Head(expr) = "=" THEN Tail(expr) ELSE expr

\* The names an expression references.
Referenced(expr) == _extract_expr_names(Written(expr))

NamesOf(item) == Referenced(item.amount_expr)

\* The items other than i that declare the name n.
Declarers(items, i, n) ==
    {j \in 1..Len(items) : j # i /\ BindsName(items[j]) /\ items[j].var_name = n}

DependsOn(items, i) == UNION {Declarers(items, i, n) : n \in NamesOf(items[i])}

RECURSIVE Reach(_, _, _)
\* The items reached from the set S along at most k dependencies.
Reach(items, S, k) ==
    IF k = 0 THEN S
    ELSE Reach(items, S \cup UNION {DependsOn(items, j) : j \in S}, k - 1)

\* The amount expression is written without the "=" prefix.
Plain(item) == item.amount_expr = <<>> \/ Head(item.amount_expr) # "="

\* Every name an amount expression references is "string" or declared by
\* another item, and no item depends on itself along a chain of such
\* declarations.
WellFormed(items) ==
    \A i \in 1..Len(items) :
        /\ \A n \in NamesOf(items[i]) : n = "string" \/ Declarers(items, i, n) # {}
        /\ i \notin Reach(items, DependsOn(items, i), Len(items))

\* The environments the sentence describes for item i: "string" is the
\* string count and a referenced name holds the resolved amount of an item
\* that declares it.
EnvsOf(items, i) ==
    LET names == NamesOf(items[i])
        choices == {f \in [names -> 0..Len(items)] :
                      \A n \in names : IF n = "string" THEN f[n] = 0
                                       ELSE f[n] \in Declarers(items, i, n)}
    IN  {[n \in names |-> IF n = "string" THEN Int2Rat(string_count)
                          ELSE resolved[f[n]].amount] : f \in choices}

\* The least integer that is not below the number a.
CeilingOf(a) == CHOOSE n \in -100..100 : ~RLess(Int2Rat(n), a) /\ RLess(Int2Rat(n - 1), a)

\* A value raised to the minimum 0.01 and then, when round is set, rounded
\* up to an integer.
ClampedRounded(round, value) ==
    LET clamped == IF RLess(value, <<1, 100>>) THEN <<1, 100>> ELSE value
    IN  IF round THEN Int2Rat(CeilingOf(clamped)) ELSE clamped

HasError(label, kind) ==
    \E e \in 1..Len(errors) : errors[e].label = label /\ errors[e].kind = kind

\* C1: in a template whose items reference only "string" and names declared
\* by other items, without cycles, every item is resolved and its amount is
\* the value of its expression in the environment of the resolved amounts.
\* The value is read as an amount: raised to 0.01 and rounded up when
\* amount_round is set (C8), and 1 with an invalid-amount error when the
\* expression has no value (C26).
C1_AmountIsExpressionValue ==
    (pc = "ResolvingPrices" /\ WellFormed(template_items)) =>
        /\ pending = <<>>
        /\ \A i \in 1..Len(template_items) :
              \E env \in EnvsOf(template_items, i) :
                 LET item == template_items[i]
                     value == _parse_calc_text(item.amount_expr, env)
                 IN  IF value = None
                     THEN /\ resolved[i].amount = ClampedRounded(item.amount_round, <<1, 1>>)
                          /\ HasError(Label(item), "InvalidAmountExpression")
                     ELSE /\ resolved[i].amount = ClampedRounded(item.amount_round, value.val)
                          /\ ~HasError(Label(item), "InvalidAmountExpression")

NameAt(k) == IF k <= Len(template_items) THEN template_items[k].generic_name ELSE ""

ErrorsFor(label, kind) ==
    {e \in 1..Len(errors) : errors[e].label = label /\ errors[e].kind = kind}

\* The estimate lines a template item has produced: a line of a generic
\* item carries its name in the note, a line of a DB-linked item carries
\* its product id and no note.
LinesOf(item) ==
    {l \in 1..Len(boq_items) :
        IF IsGeneric(item) THEN boq_items[l].note = NoteFrom(item)
        ELSE boq_items[l].product_id = item.product_id /\ boq_items[l].note = <<>>}

\* C2: every item still pending when the loop stops has a missing name,
\* gets the amount 1.0 and exactly one UnresolvedVariables warning naming
\* its missing names, and is materialized, with the quantity 1.0.
C2_UnresolvedFallback ==
    AmountsSettled =>
        \A i \in Range(pending) :
            LET item == template_items[i]
                missing == NamesOf(item) \ DOMAIN variables
            IN  /\ missing # {}
                /\ resolved[i].amount = <<1, 1>>
                /\ Cardinality(ErrorsFor(Label(item), "UnresolvedVariables")) = 1
                /\ \A e \in ErrorsFor(Label(item), "UnresolvedVariables") :
                      errors[e].names = missing
                /\ ~HasError(Label(item), "InvalidAmountExpression")
                /\ Materialized(i) =>
                      /\ Cardinality(LinesOf(item)) = 1
                      /\ \A l \in LinesOf(item) : boq_items[l].quantity = <<1, 1>>

Orders(n) ==
    {p \in [1..n -> 1..n] : \A i, j \in 1..n : p[i] = p[j] => i = j}

Permuted(items, p) == [k \in 1..Len(items) |-> items[p[k]]]

AmountErrors(es) ==
    {es[e] : e \in {k \in 1..Len(es) :
                       es[k].kind \in {"InvalidAmountExpression", "UnresolvedVariables"}}}

\* The template in the order p resolves to the amounts, the unresolved
\* items and the errors of the load in progress.
SameResolution(p) ==
    LET r == ResolveAmounts(Permuted(template_items, p), string_count)
    IN  /\ \A k \in 1..Len(template_items) :
              /\ r.resolved[k].amount = resolved[p[k]].amount
              /\ (k \in Range(r.pending)) = (p[k] \in Range(pending))
        /\ AmountErrors(r.errors) = AmountErrors(errors)

\* C3 as stated: for every template, every permutation of its items gives
\* each item the same amount and the same resolved/unresolved status.
C3_OrderIndependent ==
    pc = "ResolvingPrices" =>
        \A p \in Orders(Len(template_items)) : SameResolution(p)

\* C4: for [Cable(var_name=m, amount_expr=string*2), Clamp(ceil(m/10))]
\* with string_count 5, m resolves to 10 and Clamp is reported with an
\* invalid-expression error, not as an item with missing variables.
C4_CallIsInvalidExpression ==
    (/\ AmountsSettled
     /\ <<NameAt(1), NameAt(2), NameAt(3)>> = <<"Cable", "Clamp", "">>
     /\ string_count = 5) =>
        /\ variables["m"] = <<10, 1>>
        /\ HasError("Clamp", "InvalidAmountExpression")
        /\ ~HasError("Clamp", "UnresolvedVariables")

(***************************************************************************)
(* Properties of the quantities, the price overrides and the error list.   *)
(***************************************************************************)
IsInteger(a) == a[2] = 1

\* C8: every resolved amount and every quantity of the estimate is at
\* least 0.01, and an integer at least 1 where amount_round is set; the
\* amount is the clamped value rounded up (2.3 becomes 3).
C8_ClampThenCeil ==
    /\ \A i \in DOMAIN resolved :
          /\ ~RLess(resolved[i].amount, <<1, 100>>)
          /\ template_items[i].amount_round =>
                IsInteger(resolved[i].amount) /\ resolved[i].amount[1] >= 1
          /\ (AmountsSettled /\ template_items[i].generic_name = "G") =>
                resolved[i].amount = <<3, 1>>
    /\ \A l \in 1..Len(boq_items) :
          /\ ~RLess(boq_items[l].quantity, <<1, 100>>)
          /\ boq_items[l].quantity_round =>
                IsInteger(boq_items[l].quantity) /\ boq_items[l].quantity[1] >= 1

\* A finished load with a quantity clamped to 0.01 (string*2 with no
\* strings) and the quantity 3 for the rounded 2.3.
C8_Witness ==
    /\ pc = "Done"
    /\ \E i \in DOMAIN resolved :
          /\ template_items[i].generic_name = "Cable"
          /\ \E l \in LinesOf(template_items[i]) : boq_items[l].quantity = <<1, 100>>
    /\ \E i \in DOMAIN resolved :
          /\ template_items[i].generic_name = "G"
          /\ \E l \in LinesOf(template_items[i]) : boq_items[l].quantity = <<3, 1>>

PriceKinds == {"UnknownVariableInPrice", "InvalidPriceExpression"}

PriceErrors(label) ==
    {e \in 1..Len(errors) : errors[e].label = label /\ errors[e].kind \in PriceKinds}

\* C10: after the price pass an item with an empty price expression has no
\* override and no price error; a price expression with a name missing from
\* the final environment gives an UnknownVariableInPrice error and no
\* override; one that fails otherwise gives an InvalidPriceExpression error
\* and no override; on success the override is the value, rounded up when
\* price_round is set.
C10_PricePass ==
    PricesSettled =>
        \A i \in 1..Len(template_items) :
            LET item == template_items[i]
                missing == Referenced(item.price_expr) \ DOMAIN variables
                value == _parse_calc_text(item.price_expr, variables)
            IN  CASE item.price_expr = <<>> ->
                        resolved[i].price = None /\ PriceErrors(Label(item)) = {}
                  [] item.price_expr # <<>> /\ missing # {} ->
                        /\ resolved[i].price = None
                        /\ Cardinality(PriceErrors(Label(item))) = 1
                        /\ \A e \in PriceErrors(Label(item)) :
                              errors[e] = Err(Label(item), "UnknownVariableInPrice", missing)
                  [] item.price_expr # <<>> /\ missing = {} /\ value = None ->
                        /\ resolved[i].price = None
                        /\ Cardinality(PriceErrors(Label(item))) = 1
                        /\ \A e \in PriceErrors(Label(item)) :
                              errors[e] = Err(Label(item), "InvalidPriceExpression", {})
                  [] OTHER ->
                        /\ resolved[i].price =
                              Number(IF item.price_round THEN Int2Rat(CeilingOf(value.val))
                                     ELSE value.val)
                        /\ PriceErrors(Label(item)) = {}

AmountKinds == {"InvalidAmountExpression", "UnresolvedVariables"}

\* The entries of the error list for item i in one phase.
Entries(i, kinds) ==
    {e \in 1..Len(errors) :
        errors[e].label = Label(template_items[i]) /\ errors[e].kind \in kinds}

\* The item has a price error.
PriceFails(i) ==
    /\ template_items[i].price_expr # <<>>
    /\ \/ _extract_expr_names(template_items[i].price_expr) \ DOMAIN variables # {}
       \/ _parse_calc_text(template_items[i].price_expr, variables) = None

\* The item has an amount error: it stayed unresolved or its expression
\* failed to evaluate.
AmountFails(i) ==
    \/ i \in Range(pending)
    \/ _parse_calc_text(template_items[i].amount_expr, variables) = None

\* No error stops the load and the list holds one entry per error: every
\* item has an amount and a price result and at most one entry per phase
\* (one exactly when the phase failed for it), the list holds nothing else,
\* every generic item that went through materialization has its line, and
\* no warning is shown before the end.
BestEffort ==
    /\ PricesSettled =>
          /\ DOMAIN resolved = 1..Len(template_items)
          /\ \A i \in 1..Len(template_items) :
                /\ Cardinality(Entries(i, AmountKinds)) <= 1
                /\ Cardinality(Entries(i, PriceKinds)) = (IF PriceFails(i) THEN 1 ELSE 0)
                /\ i \in Range(pending) => Cardinality(Entries(i, AmountKinds)) = 1
                /\ Plain(template_items[i]) =>
                      Cardinality(Entries(i, AmountKinds)) = (IF AmountFails(i) THEN 1 ELSE 0)
                /\ (IsGeneric(template_items[i]) /\ Materialized(i)) =>
                      Cardinality(LinesOf(template_items[i])) = 1
          /\ 1..Len(errors) = UNION {Entries(i, AmountKinds \cup PriceKinds) :
                                        i \in 1..Len(template_items)}
    /\ pc # "Done" => warnings = <<>> /\ reported = -1

\* The load is over: the information box has been shown, or an exception
\* has left load_to_boq.
LoadEnded == pc \in {"Done", "Aborted"}

\* C9: best effort, and when the load is over the collected errors have
\* been surfaced, once: one warning that shows the list (its first 8
\* entries, the display cap) when there is an error, none otherwise.
C9_ErrorsSurfacedOnce ==
    /\ BestEffort
    /\ LoadEnded =>
          /\ Len(warnings) = (IF errors = <<>> THEN 0 ELSE 1)
          /\ \A w \in 1..Len(warnings) :
                /\ Len(warnings[w]) = (IF Len(errors) < 8 THEN Len(errors) ELSE 8)
                /\ \A e \in 1..Len(warnings[w]) : warnings[w][e] = errors[e]

(***************************************************************************)
(* Properties of the evaluators.                                           *)
(***************************************************************************)
\* The expression the handler has given to _safe_eval_expr.
Evaluated == last_eval # NotCalled

Typed == ast_parse(Tail(calc_text))

RECURSIVE OutsideGrammar(_)
RECURSIVE OutsideGrammarAny(_, _)
\* The tree holds a call, an attribute access, an index, a string literal
\* or a boolean literal.
OutsideGrammar(n) ==
    \/ n.type \in {"Call", "Attribute", "Subscript"}
    \/ n.type = "Constant" /\ n.kind \in {"str", "bool"}
    \/ OutsideGrammarAny(Children(n), 1)

OutsideGrammarAny(ns, i) ==
    IF i > Len(ns) THEN FALSE
    ELSE OutsideGrammar(ns[i]) \/ OutsideGrammarAny(ns, i + 1)

\* C5: for every expression with a call, an attribute access, an index, a
\* string literal or a boolean literal, _safe_eval_expr fails with its
\* invalid-expression error (a ValueError) and yields no number.
C5_RejectsOutsideGrammar ==
    (Evaluated /\ Typed.ok /\ OutsideGrammar(Typed.tree)) =>
        ~last_eval.ok /\ last_eval.exc = "ValueError"

\* C6: for every expression of numeric literals, parentheses, the binary
\* operators + - * / % ** and unary + - that has an arithmetic value,
\* _safe_eval_expr returns that value.
C6_AcceptsGrammar ==
    (/\ Evaluated
     /\ Typed.ok
     /\ InGrammar(Typed.tree)
     /\ NamesIn(Typed.tree) = {}
     /\ IsNumber(PyEval(Typed.tree.body, EmptyEnv))) =>
        last_eval = PyEval(Typed.tree.body, EmptyEnv)

Priced(rs, i) == i \in DOMAIN rs /\ "price" \in DOMAIN rs[i]

\* The price override the sentences give an item on its own in the
\* environment env: nothing when a name is missing or the text has no
\* value, the value rounded up when price_round is set.
PriceAlone(item, env) ==
    LET Rounded(parsed) ==
            IF parsed = None \/ ~item.price_round THEN parsed
            ELSE Number(Int2Rat(CeilingOf(parsed.val)))
    IN  IF item.price_expr = <<>> \/ _extract_expr_names(item.price_expr) \ DOMAIN env # {}
        THEN None
        ELSE Rounded(_parse_calc_text(item.price_expr, env))

\* C11: a price entry is written only by the step of the price pass, which
\* starts when every item has its amount; that step leaves the environment
\* and every resolved amount as they were, and gives each item the price
\* its own expression has in the environment of the amount pass.
C11_PricePassFrame ==
    [][/\ (\E i \in 1..Len(template_items) : Priced(resolved', i) /\ ~Priced(resolved, i)) =>
              /\ pc = "ResolvingPrices"
              /\ pending = <<>> \/ ~progress
              /\ DOMAIN resolved = 1..Len(template_items)
       /\ pc = "ResolvingPrices" =>
              /\ variables' = variables
              /\ DOMAIN resolved' = DOMAIN resolved
              /\ \A i \in DOMAIN resolved : resolved'[i].amount = resolved[i].amount
       /\ (pc = "ResolvingPrices" /\ pc' = "MaterializingItems") =>
              \A i \in 1..Len(template_items) :
                  /\ Priced(resolved', i)
                  /\ resolved'[i].price = PriceAlone(template_items[i], variables)]_vars

\* The price pass is over, and an item has a price that uses a name which
\* an item later in the template bound to its amount.
C11_Witness ==
    /\ PricesSettled
    /\ \E i, j \in 1..Len(template_items) :
          /\ i < j
          /\ BindsName(template_items[j])
          /\ template_items[j].var_name \in Referenced(template_items[i].price_expr)
          /\ resolved[i].price # None
          /\ variables[template_items[j].var_name] = resolved[j].amount

\* C12: when a load reaches Done, the count it reports is the number of
\* items of the template, and every template item has exactly one line in
\* the estimate.
C12_OneLinePerItem ==
    pc = "Done" =>
        /\ reported = Len(template_items)
        /\ \A i \in 1..Len(template_items) :
              Cardinality(LinesOf(template_items[i])) = 1

\* C13: a load is never aborted part-way, and a DB-linked item that has
\* been through materialization has a line in the estimate, also when the
\* read of its product failed.
C13_ReadFailureFallsBack ==
    /\ pc # "Aborted"
    /\ \A i \in 1..Len(template_items) :
          (Materialized(i) /\ ~IsGeneric(template_items[i])) =>
              \E l \in 1..Len(boq_items) :
                  \/ boq_items[l].product_id = template_items[i].product_id
                  \/ boq_items[l].name = template_items[i].generic_name

\* The template items for which what was called, in the order of the calls.
CalledFor(cs, what) ==
    LET made == SelectSeq(cs, LAMBDA c : c.what = what)
    IN  [k \in 1..Len(made) |-> made[k].item]

\* The generic items of the template before index k, in template order.
GenericsBefore(k) ==
    SelectSeq([i \in 1..(k - 1) |-> i], LAMBDA i : IsGeneric(template_items[i]))

\* A line without a bound product, made of the item's generic defaults.
IsSkippedLine(line, item, amount, price) ==
    /\ line.product_id = ""
    /\ line.is_custom
    /\ line.name = item.generic_name
    /\ line.unit = item.unit
    /\ line.quantity = amount
    /\ price = None => line.unit_price = item.default_price

Phases == <<"Idle", "ResolvingAmounts", "ResolvingPrices", "MaterializingItems", "Done">>

Rank(phase) == CHOOSE k \in 1..Len(Phases) : Phases[k] = phase

\* C15: a step that changes the phase goes to the next phase of the list
\* (or ends the load by an exception, C13); a product selection, a catalog
\* read or an append to the estimate happens only in MaterializingItems,
\* when every item has its amount and its price entry; and from
\* MaterializingItems on the environment, the resolved amounts and prices
\* and the collected errors stay as they are.
C15_PhasesInOrder ==
    [][/\ (pc' # pc /\ pc' \in Range(Phases)) =>
              pc \in Range(Phases) /\ Rank(pc') = Rank(pc) + 1
       /\ (calls' # calls \/ Len(boq_items') > Len(boq_items)) =>
              /\ pc = "MaterializingItems"
              /\ \A i \in 1..Len(template_items) :
                    /\ Priced(resolved, i)
                    /\ "amount" \in DOMAIN resolved[i]
       /\ pc \in {"MaterializingItems", "Done"} =>
              /\ variables' = variables
              /\ resolved' = resolved
              /\ errors' = errors]_vars

\* A load has reached Done after a product selection and a catalog read,
\* each followed by an append to the estimate.
C15_Witness ==
    /\ pc = "Done"
    /\ Len(calls) = 2
    /\ {calls[k].what : k \in 1..2} = {"select_product_for_generic", "read_product"}
    /\ items_added = 2
    /\ \A i \in 1..2 : Priced(resolved, i)

\* The line was made of the template item: a line of a generic item
\* carries the item's name in its note, a line of a DB-linked item its
\* product id and no note.
MadeOf(line, item) ==
    IF IsGeneric(item) THEN line.note = NoteFrom(item)
    ELSE line.product_id = item.product_id /\ line.note = <<>>

IsPrefix(s, t) == Len(s) <= Len(t) /\ SubSeq(t, 1, Len(s)) = s

\* C16: the loading mode is decided in the step that leaves Idle, which
\* clears the estimate in replace mode and leaves it as it is in append
\* mode; after that the mode does not change and the items the estimate
\* holds stay as a prefix; and when the load has ended, the estimate ends
\* with one line per template item, in template order, and in replace mode
\* holds nothing else.
C16_ModeHonoredAtomically ==
    [][/\ (pc = "Idle" /\ pc' # "Idle") =>
              boq_items' = IF replace_mode' THEN <<>> ELSE boq_items
       /\ pc # "Idle" =>
              /\ replace_mode' = replace_mode
              /\ IsPrefix(boq_items, boq_items')
       /\ (pc # "Idle" /\ pc' \in {"Done", "Aborted"}) =>
              LET n == Len(template_items)
                  m == Len(boq_items')
              IN  /\ m >= n
                  /\ replace_mode' => m = n
                  /\ \A k \in 1..n : MadeOf(boq_items'[m - n + k], template_items[k])]_vars

\* The step appends one line, which gets the counter as its id, and
\* raises the counter by one.
AppendsOne ==
    /\ Len(boq_items') = Len(boq_items) + 1
    /\ IsPrefix(boq_items, boq_items')
    /\ boq_items'[Len(boq_items')].id = next_id
    /\ next_id' = next_id + 1

\* C17 as written: no step lowers next_id, and a step that writes the
\* estimate empties the list or appends a line and raises next_id by one.
C17_NextIdNeverLowered ==
    [][/\ next_id' >= next_id
       /\ \/ UNCHANGED <<boq_items, next_id>>
          \/ boq_items' = <<>> /\ next_id' = next_id
          \/ AppendsOne]_vars

\* C17: a step of a load leaves the estimate as it is, or appends one
\* line and raises next_id by one, or is the step of replace mode that
\* leaves Idle, which empties the list and sets next_id to 1; after that
\* step next_id is never lowered.
C17_NextIdWrites ==
    [][/\ \/ UNCHANGED <<boq_items, next_id>>
          \/ AppendsOne
          \/ /\ pc = "Idle" /\ pc' = "ResolvingAmounts" /\ replace_mode'
             /\ boq_items' = <<>>
             /\ next_id' = 1
       /\ pc # "Idle" => next_id' >= next_id]_vars

\* A load in replace mode has ended with two lines, numbered from 1.
C17_Witness ==
    /\ pc = "Done"
    /\ replace_mode
    /\ Len(boq_items) = 2
    /\ boq_items[1].id = 1 /\ boq_items[2].id = 2
    /\ next_id = 3

\* C19: the step that leaves Idle sets the environment to exactly
\* {string: the string count}; after it no name leaves the environment and
\* the value of `string` stays; and a name that enters it is the var_name
\* of a template item, never empty and never `string` in any letter case.
C19_EnvironmentGrows ==
    [][/\ (pc = "Idle" /\ pc' # "Idle") =>
              /\ DOMAIN variables' = {"string"}
              /\ variables'["string"] = <<string_count, 1>>
       /\ pc # "Idle" =>
              /\ DOMAIN variables \subseteq DOMAIN variables'
              /\ variables'["string"] = variables["string"]
              /\ \A n \in DOMAIN variables' \ DOMAIN variables :
                    /\ n \notin {"", "string", "String"}
                    /\ \E i \in 1..Len(template_items) :
                          /\ template_items[i].var_name = n
                          /\ variables'[n] = resolved'[i].amount]_vars

\* The amounts are resolved for a string count of 5 and a template with an
\* item named String, whose amount is 3, and an item that binds m to
\* string*2: the environment holds string = 5 and m = 10 and nothing else.
C19_Witness ==
    /\ AmountsSettled
    /\ string_count = 5
    /\ \E i \in 1..Len(template_items) :
          template_items[i].var_name = "String" /\ resolved[i].amount = <<3, 1>>
    /\ DOMAIN variables = {"string", "m"}
    /\ variables["string"] = <<5, 1>>
    /\ variables["m"] = <<10, 1>>

(***************************************************************************)
(* Properties of saving a template.                                        *)
(***************************************************************************)
\* The variable names of the model that match [A-Za-z_][A-Za-z0-9_]*.
PatternNames == {"x", "X", "y", "string", "String", "_a1"}

\* The two names are the same up to the case of their letters.
SameIgnoringCase(a, b) ==
    \/ a = b
    \/ {a, b} = {"x", "X"}
    \/ {a, b} = {"string", "String"}

\* Item i has a var_name that fails one of the three checks.
FailsCheck(items, i) ==
    LET n == items[i].var_name
    IN  /\ n # ""
        /\ \/ SameIgnoringCase(n, "string")
           \/ n \notin PatternNames
           \/ \E j \in 1..Len(items) : j # i /\ SameIgnoringCase(n, items[j].var_name)

\* The step is one of save_template: it leaves the items of the window
\* and the template it shows as they are and removes no stored template.
SaveStep ==
    /\ Len(store') >= Len(store)
    /\ UNCHANGED <<template_items, current_template_id>>

\* C18: a save of a template in which a var_name is `string` in any case,
\* does not match the pattern, or equals another var_name up to case ends
\* with a warning and leaves the store as it was; and a save that writes
\* the store, or reports the template as saved, has a template in which
\* no var_name fails a check.
C18_SaveRejectsBadNames ==
    [][SaveStep =>
          /\ (\E i \in 1..Len(template_items) : FailsCheck(template_items, i)) =>
                 /\ store' = store
                 /\ save_result' \in {"empty name", "reserved name", "invalid name",
                                      "duplicate name"}
          /\ (store' # store \/ save_result' = "saved") =>
                 /\ \A i \in 1..Len(template_items) : ~FailsCheck(template_items, i)
                 /\ save_result' = "saved"]_vars

\* A template with the names x and X was not saved: the warning of the
\* duplicate was shown and the store is empty.
C18_Witness ==
    /\ Len(template_items) = 2
    /\ template_items[1].var_name = "x"
    /\ template_items[2].var_name = "X"
    /\ save_result = "duplicate name"
    /\ store = NoTemplates

(***************************************************************************)
(* Properties of the materialized lines.                                   *)
(***************************************************************************)
\* The catalog product with the id.
ProductOf(product_id) == CHOOSE p \in Products : p.id = product_id

\* C20: every line made of a template item has the price override as its
\* unit_price when one was resolved, otherwise the catalog price of its
\* product, or the item's default_price when it has no product; its
\* unit_price_azn is the stored AZN price of the product, or of the item
\* when it has no product, when there is one, otherwise the conversion of
\* its unit_price; and its total is quantity times unit_price_azn.
C20_PricePrecedence ==
    PricesSettled =>
        \A i \in 1..Len(template_items) :
            \A l \in LinesOf(template_items[i]) :
                LET item == template_items[i]
                    line == boq_items[l]
                    override == resolved[i].price
                    bound == line.product_id # ""
                    product == ProductOf(line.product_id)
                    stored == IF bound THEN product.price_azn ELSE item.default_price_azn
                IN  /\ line.unit_price =
                          IF override # None THEN override.val
                          ELSE IF bound THEN product.price
                          ELSE item.default_price
                    /\ line.unit_price_azn =
                          IF stored # None THEN stored.val
                          ELSE convert_to_azn(line.unit_price, line.currency)
                    /\ line.total = RMul(line.quantity, line.unit_price_azn)

(***************************************************************************)
(* Properties of the two kinds of template item.                           *)
(***************************************************************************)
\* The number of calls of what among the calls cs.
Count(cs, what) == Len(CalledFor(cs, what))

\* C21: the step of the materialization loop for an item whose product_id
\* is set reads that product from the catalog, asks for no selection, and
\* the line it appends, if any, has is_custom = false and the item's
\* product_id; the step for an item whose product_id is not set reads
\* nothing from the catalog, asks for the selection of that item and
\* appends a line.
C21_KindByProductId ==
    [][(pc = "MaterializingItems" /\ idx <= Len(template_items)
          /\ (idx' # idx \/ pc' # pc)) =>
          LET item == template_items[idx]
              asked == Count(calls', "select_product_for_generic")
                         - Count(calls, "select_product_for_generic")
              read == Count(calls', "read_product") - Count(calls, "read_product")
              appended == Len(boq_items') - Len(boq_items)
              line == boq_items'[Len(boq_items')]
          IN  IF item.product_id # ""
              THEN /\ read = 1 /\ asked = 0
                   /\ calls'[Len(calls')] = Invocation("read_product", idx)
                   /\ appended \in {0, 1}
                   /\ appended = 1 =>
                         ~line.is_custom /\ line.product_id = item.product_id
              ELSE /\ read = 0 /\ asked = 1
                   /\ calls'[Len(calls')] = Invocation("select_product_for_generic", idx)
                   /\ appended = 1]_vars

\* A load has ended for a template of an item without a product_id and an
\* item with one: the selection was asked for the first, the catalog was
\* read for the second, whose line is not custom and carries its product.
C21_Witness ==
    /\ pc = "Done"
    /\ Len(template_items) = 2
    /\ template_items[1].product_id = "" /\ template_items[2].product_id = Kabel.id
    /\ calls = <<Invocation("select_product_for_generic", 1), Invocation("read_product", 2)>>
    /\ Len(boq_items) >= 2
    /\ boq_items[Len(boq_items)].product_id = Kabel.id
    /\ ~boq_items[Len(boq_items)].is_custom

(***************************************************************************)
(* Properties of a session of loads.                                       *)
(***************************************************************************)
\* What the amount passes, the fallback and the price pass give for the
\* items and the string count alone, from an environment that holds only
\* `string`, no resolved item and no error.
ResolvedAlone(items, sc) ==
    LET fresh == Locals([n \in {"string"} |-> Int2Rat(sc)], [i \in {} |-> <<>>],
                        [i \in 1..Len(items) |-> i], <<>>, TRUE)
    IN  PricePass(Unresolved(AmountLoop(fresh, items), items), items)

\* C22: whatever was loaded before in the session, while a load
\* materializes its items, the price pass being over, its environment,
\* its resolved amounts and price overrides and its list of errors are
\* those that the template and the string count give on their own; so two
\* loads of the same template with the same string count resolve the same.
C22_ResolutionKeepsNoState ==
    pc = "MaterializingItems" =>
        LET alone == ResolvedAlone(template_items, string_count)
        IN  /\ variables = alone.variables
            /\ resolved = alone.resolved
            /\ errors = alone.errors

\* The estimate holds a line of the item I of an earlier load, which bound
\* z and x and left errors, and the template B = x*3 is being loaded: its
\* environment holds `string` alone and x is reported as missing, for the
\* amount and for the price.
C22_Witness ==
    /\ pc = "MaterializingItems"
    /\ Len(template_items) = 1 /\ template_items[1].generic_name = "B"
    /\ \E l \in 1..Len(boq_items) : boq_items[l].note = <<"Sablondan", "I">>
    /\ DOMAIN variables = {"string"}
    /\ resolved[1] = [amount |-> <<1, 1>>, price |-> None]
    /\ Len(errors) = 2
    /\ \A e \in 1..2 : errors[e].label = "B" /\ errors[e].names = {"x"}

(***************************************************************************)
(* Properties of the template store.                                       *)
(***************************************************************************)
\* The fields of a template item that the engine reads.
EngineFields(item) ==
    [generic_name |-> item.generic_name, var_name |-> item.var_name,
     amount_expr |-> item.amount_expr, price_expr |-> item.price_expr,
     amount_round |-> item.amount_round, price_round |-> item.price_round,
     unit |-> item.unit, default_price |-> item.default_price,
     currency |-> item.currency, default_price_azn |-> item.default_price_azn,
     category |-> item.category, product_id |-> item.product_id]

\* C23: after a save that reports the template as saved, the store holds a
\* template whose items, loaded back, are as many as the items saved and
\* agree with them, in order, on every field the engine reads, and resolve
\* to the same amounts and price overrides.
C23_RoundTrip ==
    [][(SaveStep /\ save_result' = "saved") =>
          \E k \in 1..Len(store') :
              LET loaded == [i \in 1..Len(store'[k].items) |->
                                LoadedItem(store'[k].items[i])]
              IN  /\ Len(loaded) = Len(template_items)
                  /\ \A i \in 1..Len(loaded) :
                        EngineFields(loaded[i]) = EngineFields(template_items[i])
                  /\ ResolvedAlone(loaded, string_count).resolved
                        = ResolvedAlone(template_items, string_count).resolved]_vars

\* C24: no two stored templates have the same name; a save under a stored
\* name changes the items of that template alone and adds no template; a
\* save under a new name appends one template and leaves the others as
\* they are; and a delete removes templates and changes none.
C24_StoreKeyedByName ==
    [][/\ \A i, j \in 1..Len(store') : store'[i].name = store'[j].name => i = j
       /\ (SaveStep /\ Len(store') = Len(store)) =>
              \E k \in 1..Len(store) \cup {0} :
                  \A j \in 1..Len(store) :
                      /\ store'[j].name = store[j].name
                      /\ j # k => store'[j] = store[j]
       /\ Len(store') > Len(store) =>
              /\ Len(store') = Len(store) + 1
              /\ IsPrefix(store, store')
              /\ \A j \in 1..Len(store) : store[j].name # store'[Len(store')].name
       /\ Len(store') < Len(store) =>
              \A j \in 1..Len(store') : \E i \in 1..Len(store) : store'[j] = store[i]]_vars

\* The store held the template T, with an item named y; the items of the
\* window, the first of them named x, were saved under the name T and
\* under the new name U: the store holds T and U, both with those items.
C24_Witness ==
    /\ save_result = "saved"
    /\ Len(store) = 2
    /\ store[1].name = "T" /\ store[2].name = "U"
    /\ store[1].items[1].var_name = "x"
    /\ store[2].items = store[1].items
    /\ store[1].id # store[2].id

(***************************************************************************)
(* Properties of the amount loop: its end, the fallback of an expression   *)
(* without a value, and the items left unresolved.                         *)
(***************************************************************************)
\* The locals of the load in progress.
CurrentLocals == Locals(variables, resolved, pending, errors, progress)

RECURSIVE EndsWithin(_, _, _)
\* The loop "while pending and progress" ends after at most k more passes.
EndsWithin(st, items, k) ==
    IF ~(st.pending # <<>> /\ st.progress) THEN TRUE
    ELSE IF k = 0 THEN FALSE
    ELSE EndsWithin(AmountPass(st, items), items, k - 1)

\* The items that declare a name which the amount expression of item i
\* references, item i itself included.
UsedBy(items, i) ==
    {j \in 1..Len(items) : BindsName(items[j]) /\ items[j].var_name \in NamesOf(items[i])}

RECURSIVE UsedAlong(_, _, _)
\* The items reached from the set S along at most k such uses.
UsedAlong(items, S, k) ==
    IF k = 0 THEN S
    ELSE UsedAlong(items, S \cup UNION {UsedBy(items, j) : j \in S}, k - 1)

\* Item i is a member of a cycle: it uses itself, directly or along a
\* chain of other items.
InCycle(items, i) == i \in UsedAlong(items, UsedBy(items, i), Len(items))

\* C25: while the amounts are being resolved, a pass that is made leaves
\* fewer items pending or clears progress, which makes it the last one,
\* and the loop ends within as many passes as items are pending, plus one;
\* and when the amounts are settled every member of a cycle is unresolved,
\* with the amount 1.0.
C25_LoopTerminates ==
    /\ pc = "ResolvingAmounts" =>
          /\ EndsWithin(CurrentLocals, template_items, Len(pending) + 1)
          /\ (pending # <<>> /\ progress) =>
                LET after == AmountPass(CurrentLocals, template_items)
                IN  Len(after.pending) < Len(pending) \/ ~after.progress
    /\ AmountsSettled =>
          \A i \in 1..Len(template_items) :
              InCycle(template_items, i) =>
                  i \in Range(pending) /\ resolved[i].amount = <<1, 1>>

\* The number of invalid-amount-expression errors among es for the label.
InvalidAmountErrors(es, label) ==
    Cardinality({e \in 1..Len(es) :
                    es[e].label = label /\ es[e].kind = "InvalidAmountExpression"})

\* C26: in a pass of the amount loop, a pending item whose expression
\* references only names of the environment and has no value, before the
\* pass and after it, leaves the pending items; an item that leaves them
\* gets at most one invalid-amount-expression error; the item without a
\* value gets one, and an item that gets one has the amount 1, raised to
\* the minimum and rounded up as its amount_round says, and its var_name,
\* if it binds one, is in the environment, with that amount as its value
\* when no other item resolved in the pass binds the same name.  When the
\* loop has ended, no item whose names are all in the environment is left
\* unresolved.
C26_FallbackBindsOne ==
    [][(pc = "ResolvingAmounts") =>
          /\ pc' = pc =>
                \A i \in Range(pending) :
                    LET item == template_items[i]
                        known == _extract_expr_names(item.amount_expr) \subseteq DOMAIN variables
                        fails == /\ _parse_calc_text(item.amount_expr, variables) = None
                                 /\ _parse_calc_text(item.amount_expr, variables') = None
                        got == InvalidAmountErrors(errors', Label(item))
                                 - InvalidAmountErrors(errors, Label(item))
                        fallback == ClampedRounded(item.amount_round, <<1, 1>>)
                        alone == \A j \in Range(pending) \ Range(pending') :
                                     (j # i /\ BindsName(template_items[j])) =>
                                         template_items[j].var_name # item.var_name
                    IN  /\ (known /\ fails) => i \notin Range(pending')
                        /\ i \in Range(pending') => got = 0
                        /\ i \notin Range(pending') =>
                              /\ got \in {0, 1}
                              /\ fails => got = 1
                              /\ got = 1 =>
                                    /\ resolved'[i].amount = fallback
                                    /\ BindsName(item) =>
                                          /\ item.var_name \in DOMAIN variables'
                                          /\ alone => variables'[item.var_name] = fallback
          /\ pc' = "ResolvingPrices" =>
                \A j \in Range(pending') :
                    ~(_extract_expr_names(template_items[j].amount_expr)
                         \subseteq DOMAIN variables')]_vars

\* The amounts are settled for the template of I, whose expression 1/0 has
\* no value and which binds z, and Z = z*2: I has the amount 1 and one
\* invalid-amount-expression error, z is 1, and Z is resolved, to 2, with
\* no warning about z.
C26_Witness ==
    /\ AmountsSettled
    /\ Len(template_items) = 2
    /\ template_items[1].generic_name = "I" /\ template_items[2].generic_name = "Z"
    /\ resolved[1].amount = <<1, 1>>
    /\ InvalidAmountErrors(errors, "I") = 1
    /\ variables["z"] = <<1, 1>>
    /\ resolved[2].amount = <<2, 1>>
    /\ pending = <<>>
    /\ ~HasError("Z", "UnresolvedVariables")

\* C27: when the amounts are settled, the var_name of an unresolved item
\* is not in the environment, and every item whose amount expression
\* references it is unresolved as well, with the amount 1.0 and a warning
\* that names it; and when the prices are settled, every item whose price
\* expression references it has no override and an
\* unknown-variable-in-price error that names it.
C27_UnresolvedNeverBinds ==
    AmountsSettled =>
        \A i \in Range(pending) :
            LET name == template_items[i].var_name
            IN  BindsName(template_items[i]) =>
                  /\ name \notin DOMAIN variables
                  /\ \A j \in 1..Len(template_items) :
                        LET item == template_items[j]
                        IN  /\ name \in NamesOf(item) =>
                                  /\ j \in Range(pending)
                                  /\ resolved[j].amount = <<1, 1>>
                                  /\ \E e \in ErrorsFor(Label(item), "UnresolvedVariables") :
                                        name \in errors[e].names
                            /\ (PricesSettled /\ name \in Referenced(item.price_expr)) =>
                                  /\ resolved[j].price = None
                                  /\ \E e \in ErrorsFor(Label(item), "UnknownVariableInPrice") :
                                        name \in errors[e].names

(***************************************************************************)
(* Properties of the estimate: the prices of its lines and their ids.      *)
(***************************************************************************)
\* C28: every line of the estimate whose currency is AZN has its
\* unit_price as its unit_price_azn, and quantity times unit_price as its
\* total.
C28_AznPriceIsUnitPrice ==
    \A l \in 1..Len(boq_items) :
        boq_items[l].currency = "AZN" =>
            /\ boq_items[l].unit_price_azn = boq_items[l].unit_price
            /\ boq_items[l].total = RMul(boq_items[l].quantity, boq_items[l].unit_price)


\* The ids of the lines are pairwise distinct and all below next_id.
IdsBelowNextId ==
    /\ \A k \in 1..Len(boq_items) : boq_items[k].id < next_id
    /\ \A k, l \in 1..Len(boq_items) : k # l => boq_items[k].id # boq_items[l].id

\* A step of a load that makes the list longer appends one line, whose id
\* is next_id as it was before the step.
LoadAppendsAtNextId ==
    (pc \in {"ResolvingAmounts", "ResolvingPrices", "MaterializingItems"}
        /\ Len(boq_items') > Len(boq_items))
    => /\ Len(boq_items') = Len(boq_items) + 1
       /\ IsPrefix(boq_items, boq_items')
       /\ boq_items'[Len(boq_items')].id = next_id

\* C29: in a session that starts with an empty estimate and next_id = 1,
\* after any sequence of added, deleted and moved lines and of loads in
\* append or replace mode the ids of the lines are pairwise distinct and
\* below next_id, and a line appended by a load has as its id the next_id
\* of the moment it is made.
C29_IdsDistinctBelowNextId == []IdsBelowNextId /\ [][LoadAppendsAtNextId]_vars

\* A line was deleted, which left the id 1 unused, and a load then
\* appended a line after the one that was kept.
C29_Witness ==
    /\ pc = "Done" /\ ~replace_mode /\ items_added = 1
    /\ Len(boq_items) = 2
    /\ boq_items[1].id = 2 /\ boq_items[1].name = "Existing"
    /\ boq_items[2].id = 3
    /\ next_id = 4


(***************************************************************************)
(* Properties of the load that does not start.                             *)
(***************************************************************************)
\* C30: a call of load_to_boq on a template without items or on a window
\* without an estimate window does not start, and a call that does not
\* start (these two, and the question answered with Cancel) leaves the
\* lines of the estimate and next_id as they were, asks for no product
\* and reads none from the catalog.
C30_RefusedLoadLeavesEstimate ==
    [][pc = "Idle" =>
          /\ template_items = <<>> => load_result' = "NoItems"
          /\ ~boq_window => load_result' \in {"NoItems", "NoWindow"}
          /\ load_result' # "Started" =>
                /\ UNCHANGED <<boq_items, next_id, calls>>
                /\ pc' = "Idle"]_vars

\* The question was answered with Cancel over an estimate with a line:
\* the line is there, and nothing was asked or read.
C30_Witness ==
    /\ load_result = "Cancelled"
    /\ pc = "Idle"
    /\ boq_items = <<Existing>> /\ next_id = 2
    /\ calls = <<>>

=============================================================================
